---- MODULE Spec2Model ----
(***************************************************************************)
(* A model of lazyrequest's request pipeline:                              *)
(*   - ExecutionOrchestrator (src/src/orchestrator/execution-orchestrator) *)
(*   - HttpExecutor          (src/src/executor/http-executor)              *)
(*   - VariableResolver      (src/src/resolver/variable-resolver)          *)
(*   - ResponseComparator    (src/src/comparator/response-comparator,      *)
(*                            strategy-selector)                           *)
(*   - run                   (src/src/index)                               *)
(* Each component has its own specification over the shared variables:     *)
(*   Spec          one call of ExecutionOrchestrator.execute               *)
(*   SpecExecutor  one call of HttpExecutor.execute on a clock             *)
(*   SpecResolver  one call of VariableResolver.resolveSource              *)
(*   SpecCompare   one call of ResponseComparator.compare                  *)
(*   SpecRun       one call of run                                         *)
(* An optional value (T | null) is a sequence: <<>> is null, <<x>> is x.   *)
(***************************************************************************)
EXTENDS Integers, Sequences, FiniteSets, TLC

VARIABLES
    \* ---- ExecutionOrchestrator: the options the constructor was given
    options,
    \* ---- ExecutionOrchestrator: fields set by the constructor
    bail, maxRequests, defaultTimeBetweenRequests, requestExecutionStrategy,
    \* ---- the arguments of execute
    units, hasOnResult,
    \* ---- the locals of execute / executeRunInBand / executeConcurrent
    pc, executionUnits, index, results, failedCount,
    \* ---- the collaborators: pending promises and what they were asked
    inFlight, cbPending, calls, onResultCalls, sleeps,
    executorThrew, comparatorThrew,
    \* ---- how execute settled
    returned, rejection,
    \* ---- HttpExecutor.execute on a clock
    timeout, clock, hpc, startedAt, endedAt, timerArmed, timerDeadline,
    aborted, herror, durationMs,
    \* ---- VariableResolver
    rpc, throwOnUnresolved, maxInterpolationPasses, ast, resolved, rerror,
    \* ---- ResponseComparator.compare: its argument and what it returned
    cpc, context, comparison,
    \* ---- run: where it stands, its configuration, what it has done
    runPc, executionMode, showAfterDone, runOutcomes, requestsSent,
    reportedResults, thrownAt, exitCode,
    \* ---- ResultReporter: the report it returned to run
    report

ovars == <<options, bail, maxRequests, defaultTimeBetweenRequests, requestExecutionStrategy,
           units, hasOnResult, pc, executionUnits, index, results, failedCount,
           inFlight, cbPending, calls, onResultCalls, sleeps,
           executorThrew, comparatorThrew, returned, rejection>>
hvars == <<timeout, clock, hpc, startedAt, endedAt, timerArmed, timerDeadline,
           aborted, herror, durationMs>>
rvars == <<rpc, throwOnUnresolved, maxInterpolationPasses, ast, resolved, rerror>>
cvars == <<cpc, context, comparison>>
pvars == <<runPc, executionMode, showAfterDone, runOutcomes, requestsSent,
           reportedResults, thrownAt, exitCode, report>>
vars == <<ovars, hvars, rvars, cvars, pvars>>
\* What the constructor and the caller fix for one call of execute.
oconf == <<options, bail, maxRequests, defaultTimeBetweenRequests, requestExecutionStrategy,
           units, hasOnResult>>

None == <<>>
Some(x) == <<x>>
IsNone(o) == o = <<>>
Val(o) == o[1]

Min(a, b) == IF a <= b THEN a ELSE b
Max(a, b) == IF a >= b THEN a ELSE b
Range(s) == {s[i] : i \in 1..Len(s)}

(***************************************************************************)
(* ExecutionOrchestrator                                                   *)
(***************************************************************************)

\* The largest number of resolved units handed to execute.
MaxUnits == 3

\* Option values are carried in halves, so that a fractional setting can be
\* written: Half(1) is 0.5, Whole(2) is 2.
Whole(n) == 2 * n
IsInteger(h) == h % 2 = 0
AsInteger(h) == h \div 2

\* options.bail and options.maxRequests as the caller may write them.
BailOptions == {None, Some(Whole(1)), Some(Whole(2))}
MaxRequestsOptions == {None, Some(Whole(1)), Some(Whole(2))}
DelayOptions == {0, 1}
\* Settings that are no positive integer (0, -1, 0.5, 1.5), and a negative delay.
OddNumbers == {Some(Whole(0)), Some(Whole(-1)), Some(1), Some(3)}
OddDelays == {-1}

Options(b, m, d) == [bail |-> b, maxRequests |-> m, defaultTimeBetweenRequests |-> d]

\* The options of a run: every combination of the plain settings, and each
\* odd setting next to plain ones.
OptionChoices ==
    {Options(b, m, d) : b \in BailOptions, m \in MaxRequestsOptions, d \in DelayOptions}
    \cup {Options(b, Some(Whole(2)), 1) : b \in OddNumbers}
    \cup {Options(Some(Whole(1)), m, 1) : m \in OddNumbers}
    \cup {Options(Some(Whole(1)), Some(Whole(2)), d) : d \in OddDelays}
    \cup {Options(Some(Whole(0)), Some(Whole(0)), -1)}
Strategies == {"runInBand", "concurrent"}

\* A plausible slip: < instead of <=, so 0 is kept.
normalizeBailKeepsZero(value) ==
    IF IsNone(value) THEN None
    ELSE IF ~IsInteger(Val(value)) \/ Val(value) < 0 THEN None
    ELSE Some(AsInteger(Val(value)))

\* normalizeBail: null, a non-integer or a value <= 0 is null.
normalizeBail(value) ==
    IF IsNone(value) THEN None
    ELSE IF ~IsInteger(Val(value)) \/ Val(value) <= 0 THEN None
    ELSE Some(AsInteger(Val(value)))

\* normalizeMaxRequests: the same rule.
normalizeMaxRequests(value) ==
    IF IsNone(value) THEN None
    ELSE IF ~IsInteger(Val(value)) \/ Val(value) <= 0 THEN None
    ELSE Some(AsInteger(Val(value)))

\* A plausible slip: the cap is read but the list is not cut.
applyMaxRequestsKeepsAll(us, cap) == us

\* units.slice(0, maxRequests), or the units as given when there is no cap.
applyMaxRequests(us, cap) ==
    IF IsNone(cap) THEN us
    ELSE SubSeq(us, 1, Min(Val(cap), Len(us)))

\* What the executor may answer: an executed unit, a thrown Error, or a thrown
\* value that is no Error.  What the comparator may answer: a verdict, or a throw.
NetworkError == [isError |-> TRUE, message |-> "fetch failed"]
ThrownString == [isError |-> FALSE, message |-> "boom"]
CompareError == [isError |-> TRUE, message |-> "compare failed"]
OnResultError == [isError |-> TRUE, message |-> "onResult failed"]

ComparePassed == [passed |-> TRUE, mismatches |-> 0]
CompareFailed == [passed |-> FALSE, mismatches |-> 1]

ExecutorOk == [kind |-> "ok", thrown |-> None]
ExecutorThrows(e) == [kind |-> "throw", thrown |-> Some(e)]
ComparatorReturns(c) == [kind |-> "ok", comparison |-> Some(c), thrown |-> None]
ComparatorThrows(e) == [kind |-> "throw", comparison |-> None, thrown |-> Some(e)]
ComparatorNotCalled == [kind |-> "notCalled", comparison |-> None, thrown |-> None]

\* The behaviours of the two collaborators for one unit.
UnitOutcomes ==
    {[executor |-> ExecutorOk, comparator |-> ComparatorReturns(ComparePassed)],
     [executor |-> ExecutorOk, comparator |-> ComparatorReturns(CompareFailed)],
     [executor |-> ExecutorOk, comparator |-> ComparatorThrows(CompareError)],
     [executor |-> ExecutorThrows(NetworkError), comparator |-> ComparatorNotCalled],
     [executor |-> ExecutorThrows(ThrownString), comparator |-> ComparatorNotCalled]}

\* toError: an Error is kept, anything else becomes new Error(String(error)).
toError(error) ==
    IF error.isError THEN error
    ELSE [isError |-> TRUE, message |-> error.message]

Completed(value) == [kind |-> "return", value |-> Some(value), thrown |-> None]
Thrown(e) == [kind |-> "throw", value |-> None, thrown |-> Some(e)]

FailedResult(unit, error) ==
    [unit |-> unit, passed |-> FALSE, executedUnit |-> None,
     comparison |-> None, error |-> Some(toError(error))]

\* A plausible slip: no try/catch, so the throw leaves executeSingleUnit.
executeSingleUnitNoCatch(unit, outcome) ==
    IF outcome.executor.kind = "throw" THEN Thrown(Val(outcome.executor.thrown))
    ELSE IF outcome.comparator.kind = "throw" THEN Thrown(Val(outcome.comparator.thrown))
    ELSE Completed([unit |-> unit,
                    passed |-> Val(outcome.comparator.comparison).passed,
                    executedUnit |-> Some(unit),
                    comparison |-> outcome.comparator.comparison,
                    error |-> None])

\* A plausible slip: the executed unit is kept when only the comparator threw.
executeSingleUnitKeepsExecuted(unit, outcome) ==
    IF outcome.executor.kind = "throw"
    THEN Completed(FailedResult(unit, Val(outcome.executor.thrown)))
    ELSE IF outcome.comparator.kind = "throw"
    THEN Completed([FailedResult(unit, Val(outcome.comparator.thrown))
                        EXCEPT !.executedUnit = Some(unit)])
    ELSE Completed([unit |-> unit,
                    passed |-> Val(outcome.comparator.comparison).passed,
                    executedUnit |-> Some(unit),
                    comparison |-> outcome.comparator.comparison,
                    error |-> None])

\* A plausible slip: a failed verdict is reported as an error.
executeSingleUnitMismatchIsError(unit, outcome) ==
    IF outcome.executor.kind = "throw"
    THEN Completed(FailedResult(unit, Val(outcome.executor.thrown)))
    ELSE IF outcome.comparator.kind = "throw"
    THEN Completed(FailedResult(unit, Val(outcome.comparator.thrown)))
    ELSE IF ~Val(outcome.comparator.comparison).passed
    THEN Completed(FailedResult(unit, [isError |-> TRUE, message |-> "mismatch"]))
    ELSE Completed([unit |-> unit,
                    passed |-> Val(outcome.comparator.comparison).passed,
                    executedUnit |-> Some(unit),
                    comparison |-> outcome.comparator.comparison,
                    error |-> None])

\* executeSingleUnit: the executor call and the comparison inside one try;
\* whatever is thrown becomes a failed result.
executeSingleUnit(unit, outcome) ==
    IF outcome.executor.kind = "throw"
    THEN Completed(FailedResult(unit, Val(outcome.executor.thrown)))
    ELSE IF outcome.comparator.kind = "throw"
    THEN Completed(FailedResult(unit, Val(outcome.comparator.thrown)))
    ELSE Completed([unit |-> unit,
                    passed |-> Val(outcome.comparator.comparison).passed,
                    executedUnit |-> Some(unit),
                    comparison |-> outcome.comparator.comparison,
                    error |-> None])

\* A plausible slip: the first request waits too.
ShouldSleepBeforeFirst(i, delay) == delay > 0

\* The loop's tests (lines 62, 70-76) and the map of executeConcurrent (line 88).
ShouldSleep(i, delay) == i > 0 /\ delay > 0

CountFailure(failed, result) == IF ~result.passed THEN failed + 1 ELSE failed

\* A plausible slip: the threshold is never looked at.
ShouldBailNever(b, failed) == FALSE

\* A plausible slip: > instead of >=.
ShouldBailOffByOne(b, failed) == ~IsNone(b) /\ failed > Val(b)

ShouldBail(b, failed) == ~IsNone(b) /\ failed >= Val(b)

\* A plausible slip: every unit is dispatched a second time.
ConcurrentDispatchTwice(eu) == eu \o eu

\* A plausible slip: the map stops after the first unit.
ConcurrentDispatchFirstOnly(eu) == SubSeq(eu, 1, Min(1, Len(eu)))

\* executionUnits.map(async (unit) => ...): every callback runs up to its
\* first await, the executor call, before map returns.
ConcurrentDispatch(eu) == eu

\* Lines 26-38: the constructor has normalized the options into the fields.
OInit ==
    /\ options \in OptionChoices
    /\ bail = normalizeBail(options.bail)
    /\ maxRequests = normalizeMaxRequests(options.maxRequests)
    /\ defaultTimeBetweenRequests = Max(0, options.defaultTimeBetweenRequests)
    /\ requestExecutionStrategy \in Strategies
    /\ \E n \in 0..MaxUnits : units = [i \in 1..n |-> i]
    /\ hasOnResult \in BOOLEAN
    /\ pc = "idle"
    /\ executionUnits = <<>>
    /\ index = 0
    /\ results = <<>>
    /\ failedCount = 0
    /\ inFlight = {}
    /\ cbPending = {}
    /\ calls = <<>>
    /\ onResultCalls = <<>>
    /\ sleeps = <<>>
    /\ executorThrew = {}
    /\ comparatorThrew = {}
    /\ returned = None
    /\ rejection = None

\* The head of one iteration of the for loop of executeRunInBand, entered with
\* index i and the results so far: leave the loop, sleep, or call the executor.
RunInBandIterate(eu, i, res) ==
    /\ index' = i
    /\ IF i >= Len(eu)
       THEN /\ pc' = "done"
            /\ returned' = Some(res)
            /\ inFlight' = {}
            /\ UNCHANGED <<calls, sleeps>>
       ELSE IF ShouldSleep(i, defaultTimeBetweenRequests)
       THEN /\ pc' = "sleeping"
            /\ sleeps' = Append(sleeps, defaultTimeBetweenRequests)
            /\ inFlight' = {}
            /\ UNCHANGED <<calls, returned>>
       ELSE /\ pc' = "executing"
            /\ calls' = Append(calls, eu[i + 1])
            /\ inFlight' = {eu[i + 1]}
            /\ UNCHANGED <<sleeps, returned>>

\* Lines 70-77: count the failure, break on bail, else the next iteration.
RunInBandAfterResult(result, res) ==
    /\ failedCount' = CountFailure(failedCount, result)
    /\ IF ShouldBail(bail, failedCount')
       THEN /\ pc' = "done"
            /\ returned' = Some(res)
            /\ inFlight' = {}
            /\ UNCHANGED <<index, calls, sleeps>>
       ELSE RunInBandIterate(executionUnits, index + 1, res)

\* execute: cap the units, then hand them to the strategy.
Execute ==
    /\ pc = "idle"
    /\ executionUnits' = applyMaxRequests(units, maxRequests)
    /\ IF requestExecutionStrategy = "concurrent"
       THEN /\ calls' = ConcurrentDispatch(executionUnits')
            /\ inFlight' = Range(calls')
            /\ IF executionUnits' = <<>>
               THEN pc' = "done" /\ returned' = Some(<<>>)
               ELSE pc' = "awaitAll" /\ UNCHANGED returned
            /\ UNCHANGED <<index, sleeps>>
       ELSE RunInBandIterate(executionUnits', 0, <<>>)
    /\ UNCHANGED <<oconf, hvars, rvars, cvars, pvars, results,
                   failedCount, cbPending, onResultCalls, executorThrew,
                   comparatorThrew, rejection>>

\* The sleep before a unit that is not the first resolves: call the executor.
SleepSettle ==
    /\ pc = "sleeping"
    /\ pc' = "executing"
    /\ calls' = Append(calls, executionUnits[index + 1])
    /\ inFlight' = {executionUnits[index + 1]}
    /\ UNCHANGED <<oconf, hvars, rvars, cvars, pvars, executionUnits,
                   index, results, failedCount, cbPending, onResultCalls, sleeps,
                   executorThrew, comparatorThrew, returned, rejection>>

Threw(o) == IF o.kind = "throw" THEN TRUE ELSE FALSE

\* A plausible slip: onResult is called but its promise is not awaited.
RunInBandSettleNoAwait(outcome) ==
    /\ pc = "executing"
    /\ LET unit == executionUnits[index + 1]
           r == executeSingleUnit(unit, outcome)
       IN  /\ executorThrew' = IF Threw(outcome.executor)
                               THEN executorThrew \cup {unit} ELSE executorThrew
           /\ comparatorThrew' = IF Threw(outcome.comparator)
                                 THEN comparatorThrew \cup {unit} ELSE comparatorThrew
           /\ results' = Append(results, Val(r.value))
           /\ onResultCalls' = IF hasOnResult THEN Append(onResultCalls, unit)
                               ELSE onResultCalls
           /\ cbPending' = IF hasOnResult THEN cbPending \cup {unit} ELSE cbPending
           /\ failedCount' = CountFailure(failedCount, Val(r.value))
           /\ IF ShouldBail(bail, failedCount') \/ index + 1 >= Len(executionUnits)
              THEN pc' = "done" /\ returned' = Some(results')
                   /\ UNCHANGED <<index, calls, sleeps>>
              ELSE pc' = "executing" /\ index' = index + 1
                   /\ calls' = Append(calls, executionUnits[index + 2])
                   /\ UNCHANGED <<sleeps, returned>>
           /\ inFlight' = IF pc' = "executing" THEN {executionUnits[index + 2]} ELSE {}
           /\ rejection' = rejection
    /\ UNCHANGED <<oconf, hvars, rvars, cvars, pvars, executionUnits>>

\* Lines 66-68 (and 70-77 when there is no callback to wait for): the
\* executor call of the unit in hand settles, executeSingleUnit returns its
\* result, the result is pushed and handed to onResult.
RunInBandSettle(outcome) ==
    /\ pc = "executing"
    /\ LET unit == executionUnits[index + 1]
           r == executeSingleUnit(unit, outcome)
       IN  /\ executorThrew' = IF Threw(outcome.executor)
                               THEN executorThrew \cup {unit} ELSE executorThrew
           /\ comparatorThrew' = IF Threw(outcome.comparator)
                                 THEN comparatorThrew \cup {unit} ELSE comparatorThrew
           /\ IF r.kind = "throw"
              THEN /\ pc' = "rejected"
                   /\ rejection' = r.thrown
                   /\ inFlight' = {}
                   /\ UNCHANGED <<results, onResultCalls, cbPending, failedCount,
                                  index, calls, sleeps, returned>>
              ELSE /\ results' = Append(results, Val(r.value))
                   /\ rejection' = rejection
                   /\ IF hasOnResult
                      THEN /\ onResultCalls' = Append(onResultCalls, unit)
                           /\ cbPending' = cbPending \cup {unit}
                           /\ pc' = "onResult"
                           /\ inFlight' = {}
                           /\ UNCHANGED <<failedCount, index, calls, sleeps, returned>>
                      ELSE /\ UNCHANGED <<onResultCalls, cbPending>>
                           /\ RunInBandAfterResult(Val(r.value), results')
    /\ UNCHANGED <<oconf, hvars, rvars, cvars, pvars, executionUnits>>

\* Line 68 resumes: the promise onResult returned settles.  A rejection
\* leaves the loop and rejects execute.
RunInBandOnResultSettle(ok) ==
    /\ pc = "onResult"
    /\ cbPending' = {}
    /\ IF ok
       THEN /\ RunInBandAfterResult(results[Len(results)], results)
            /\ UNCHANGED rejection
       ELSE /\ pc' = "rejected"
            /\ rejection' = Some(OnResultError)
            /\ UNCHANGED <<failedCount, index, calls, inFlight, sleeps, returned>>
    /\ UNCHANGED <<oconf, hvars, rvars, cvars, pvars, executionUnits,
                   results, onResultCalls, executorThrew, comparatorThrew>>

\* A plausible slip: the join waits for the executor calls only.
ConcurrentJoinIgnoresCallbacks(p, flying, pending, res) ==
    IF p = "awaitAll" /\ flying = {}
    THEN pc' = "done" /\ returned' = Some(res)
    ELSE pc' = p /\ UNCHANGED returned

\* Promise.all resolves once every mapped promise has resolved.
ConcurrentJoin(p, flying, pending, res) ==
    IF p = "awaitAll" /\ flying = {} /\ pending = {}
    THEN pc' = "done" /\ returned' = Some(res)
    ELSE pc' = p /\ UNCHANGED returned

\* Promise.all rejects with the first rejection; later ones are dropped.
ConcurrentReject(e) ==
    /\ pc' = IF pc = "awaitAll" THEN "rejected" ELSE pc
    /\ rejection' = IF pc = "awaitAll" THEN e ELSE rejection
    /\ UNCHANGED returned

\* A plausible slip: a result that arrives once bail is reached is dropped.
ConcurrentSettleBailDrops(u, outcome) ==
    /\ requestExecutionStrategy = "concurrent"
    /\ pc \in {"awaitAll", "rejected"}
    /\ u \in inFlight
    /\ LET r == executeSingleUnit(u, outcome)
           drop == ShouldBail(bail, failedCount)
       IN  /\ inFlight' = inFlight \ {u}
           /\ executorThrew' = IF Threw(outcome.executor)
                               THEN executorThrew \cup {u} ELSE executorThrew
           /\ comparatorThrew' = IF Threw(outcome.comparator)
                                 THEN comparatorThrew \cup {u} ELSE comparatorThrew
           /\ failedCount' = CountFailure(failedCount, Val(r.value))
           /\ results' = IF drop THEN results ELSE Append(results, Val(r.value))
           /\ onResultCalls' = IF hasOnResult /\ ~drop
                               THEN Append(onResultCalls, u) ELSE onResultCalls
           /\ cbPending' = IF hasOnResult /\ ~drop
                           THEN cbPending \cup {u} ELSE cbPending
           /\ ConcurrentJoin(pc, inFlight', cbPending', results')
           /\ UNCHANGED rejection
    /\ UNCHANGED <<oconf, hvars, rvars, cvars, pvars, executionUnits,
                   index, calls, sleeps>>

\* Lines 89-91 for one unit: its executor call settles, in any order among
\* the units in flight; the result is pushed and handed to onResult.  The
\* mapped promises keep running after Promise.all has rejected.
ConcurrentSettle(u, outcome) ==
    /\ requestExecutionStrategy = "concurrent"
    /\ pc \in {"awaitAll", "rejected"}
    /\ u \in inFlight
    /\ LET r == executeSingleUnit(u, outcome)
       IN  /\ inFlight' = inFlight \ {u}
           /\ executorThrew' = IF Threw(outcome.executor)
                               THEN executorThrew \cup {u} ELSE executorThrew
           /\ comparatorThrew' = IF Threw(outcome.comparator)
                                 THEN comparatorThrew \cup {u} ELSE comparatorThrew
           /\ IF r.kind = "throw"
              THEN /\ ConcurrentReject(r.thrown)
                   /\ UNCHANGED <<results, onResultCalls, cbPending>>
              ELSE /\ results' = Append(results, Val(r.value))
                   /\ onResultCalls' = IF hasOnResult THEN Append(onResultCalls, u)
                                       ELSE onResultCalls
                   /\ cbPending' = IF hasOnResult THEN cbPending \cup {u}
                                   ELSE cbPending
                   /\ ConcurrentJoin(pc, inFlight', cbPending', results')
                   /\ UNCHANGED rejection
    /\ UNCHANGED <<oconf, hvars, rvars, cvars, pvars, executionUnits,
                   index, failedCount, calls, sleeps>>

\* Line 91 resumes for one unit: the promise onResult returned settles.
ConcurrentOnResultSettle(u, ok) ==
    /\ requestExecutionStrategy = "concurrent"
    /\ pc \in {"awaitAll", "rejected"}
    /\ u \in cbPending
    /\ cbPending' = cbPending \ {u}
    /\ IF ok
       THEN ConcurrentJoin(pc, inFlight, cbPending', results) /\ UNCHANGED rejection
       ELSE ConcurrentReject(Some(OnResultError))
    /\ UNCHANGED <<oconf, hvars, rvars, cvars, pvars, executionUnits,
                   index, results, failedCount, inFlight, calls, onResultCalls,
                   sleeps, executorThrew, comparatorThrew>>

Next ==
    \/ Execute
    \/ SleepSettle
    \/ \E outcome \in UnitOutcomes : RunInBandSettle(outcome)
    \/ \E ok \in BOOLEAN : RunInBandOnResultSettle(ok)
    \/ \E u \in 1..MaxUnits, outcome \in UnitOutcomes : ConcurrentSettle(u, outcome)
    \/ \E u \in 1..MaxUnits, ok \in BOOLEAN : ConcurrentOnResultSettle(u, ok)


\* The other components at rest while one of them runs.
HIdle ==
    /\ timeout = 0
    /\ clock = 0
    /\ hpc = "idle"
    /\ startedAt = None
    /\ endedAt = None
    /\ timerArmed = FALSE
    /\ timerDeadline = 0
    /\ aborted = FALSE
    /\ herror = None
    /\ durationMs = None

RIdle ==
    /\ rpc = "idle"
    /\ throwOnUnresolved = FALSE
    /\ maxInterpolationPasses = 0
    /\ ast = <<>>
    /\ resolved = <<>>
    /\ rerror = None

CIdle ==
    /\ cpc = "idle"
    /\ context = <<>>
    /\ comparison = <<>>

PIdle ==
    /\ runPc = "idle"
    /\ executionMode = "inline"
    /\ showAfterDone = FALSE
    /\ runOutcomes = <<>>
    /\ requestsSent = 0
    /\ reportedResults = <<>>
    /\ thrownAt = <<>>
    /\ exitCode = <<>>
    /\ report = <<>>

Init == OInit /\ HIdle /\ RIdle /\ CIdle /\ PIdle

Spec == Init /\ [][Next]_vars

(***************************************************************************)
(* Properties of ExecutionOrchestrator.execute (checked under Spec)        *)
(***************************************************************************)

RECURSIVE FailedIn(_)
\* The number of failed results in a list of results.
FailedIn(res) ==
    IF res = <<>> THEN 0
    ELSE (IF res[Len(res)].passed THEN 0 ELSE 1) + FailedIn(SubSeq(res, 1, Len(res) - 1))

UnitsOf(res) == [i \in 1..Len(res) |-> res[i].unit]
InputPrefix(n) == SubSeq(units, 1, n)
\* The units left by the cap, as the caller sees it.
PostCap == IF IsNone(maxRequests) THEN Len(units) ELSE Min(Val(maxRequests), Len(units))
ResultsFor(u) == {i \in 1..Len(results) : results[i].unit = u}

\* C1: in runInBand mode with bail = k no unit is dispatched after the k-th
\* failed result (mismatch or captured error): the failures never exceed k,
\* once there are k the last result is the k-th failure and no executor call
\* follows it, and the list returned is the input-order prefix ending at the
\* k-th failure, or all post-cap units when fewer than k failed.
C1_SequentialBailExact ==
    (requestExecutionStrategy = "runInBand" /\ ~IsNone(bail)) =>
        LET k == Val(bail) IN
        /\ FailedIn(results) <= k
        /\ FailedIn(results) = k =>
              /\ ~results[Len(results)].passed
              /\ Len(calls) = Len(results)
              /\ inFlight = {}
              /\ pc \in {"onResult", "done", "rejected"}
        /\ pc = "done" =>
              /\ returned = Some(results)
              /\ UnitsOf(results) = InputPrefix(Len(results))
              /\ calls = UnitsOf(results)
              /\ \/ FailedIn(results) = k
                 \/ FailedIn(results) < k /\ Len(results) = PostCap
              /\ (k = 1 /\ FailedIn(results) = 1) =>
                    \A i \in 1..Len(results) : ~results[i].passed <=> i = Len(results)

\* C1 witness: bail = 2 stops a run of three units after two failures, one
\* a captured error and one a mismatch.
C1_Witness ==
    /\ requestExecutionStrategy = "runInBand"
    /\ bail = Some(2)
    /\ pc = "done"
    /\ Len(executionUnits) = 3
    /\ Len(results) = 2
    /\ ~IsNone(results[1].error)
    /\ ~IsNone(results[2].comparison) /\ ~results[2].passed

\* C2 as stated: with a cap m the executor is called for exactly the first
\* min(m, n) units and exactly min(m, n) results are returned, in either
\* strategy.
C2_ExactlyCapDispatched ==
    (~IsNone(maxRequests) /\ pc = "done") =>
        /\ calls = InputPrefix(PostCap)
        /\ Len(Val(returned)) = PostCap

\* C2 amended: with a cap m only the first min(m, n) units, in input order,
\* are ever executed, passed to onResult or reported; the executor is called
\* for all of them and min(m, n) results are returned when execute resolves
\* without bail having stopped a runInBand run.
C2_CapBoundsDispatch ==
    ~IsNone(maxRequests) =>
        /\ Len(calls) <= PostCap
        /\ Range(calls) \subseteq Range(InputPrefix(PostCap))
        /\ requestExecutionStrategy = "runInBand" => calls = InputPrefix(Len(calls))
        /\ Range(onResultCalls) \subseteq Range(InputPrefix(PostCap))
        /\ Range(UnitsOf(results)) \subseteq Range(InputPrefix(PostCap))
        /\ Len(results) <= PostCap
        /\ (pc = "done" /\ (requestExecutionStrategy = "concurrent"
                            \/ IsNone(bail) \/ FailedIn(results) < Val(bail))) =>
              /\ calls = InputPrefix(PostCap)
              /\ Len(Val(returned)) = PostCap

\* C2 witness: three units capped at two, both executed and reported.
C2_Witness ==
    /\ maxRequests = Some(2)
    /\ Len(units) = 3
    /\ pc = "done"
    /\ calls = <<1, 2>>
    /\ Len(Val(returned)) = 2
    /\ hasOnResult /\ Len(onResultCalls) = 2

\* C3: in concurrent mode every post-cap unit is dispatched before any result
\* is known, and every dispatched unit is either still in flight or has
\* exactly one result, whatever the order of completions, the failures and
\* bail; the list returned holds exactly one result per dispatched unit.
C3_ConcurrentKeepsAll ==
    (requestExecutionStrategy = "concurrent" /\ pc # "idle") =>
        /\ calls = InputPrefix(PostCap)
        /\ \A u \in Range(calls) :
              /\ Cardinality(ResultsFor(u)) = (IF u \in inFlight THEN 0 ELSE 1)
        /\ Len(results) = Cardinality(Range(calls) \ inFlight)
        /\ pc = "done" =>
              /\ returned = Some(results)
              /\ inFlight = {}
              /\ Len(results) = PostCap

\* C3 witness: bail = 1, three units, all three fail and all three are
\* returned, in an order that is not the input order.
C3_Witness ==
    /\ requestExecutionStrategy = "concurrent"
    /\ bail = Some(1)
    /\ pc = "done"
    /\ Len(results) = 3
    /\ FailedIn(results) = 3
    /\ UnitsOf(results) = <<3, 1, 2>>

\* C4: whatever the executor or the comparator throws for a unit stays inside
\* that unit's result: {passed: false, executedUnit: null, comparison: null,
\* error} with error an Error; execute is rejected by nothing they throw and
\* resolves with the list of results.
C4_ThrowsAreCaptured ==
    /\ \A i \in 1..Len(results) :
          results[i].unit \in (executorThrew \cup comparatorThrew) =>
              /\ results[i].passed = FALSE
              /\ results[i].executedUnit = None
              /\ results[i].comparison = None
              /\ ~IsNone(results[i].error)
              /\ Val(results[i].error).isError
    /\ \A u \in (executorThrew \cup comparatorThrew) : ResultsFor(u) # {}
    /\ ~IsNone(rejection) => Val(rejection) = OnResultError
    /\ pc = "rejected" => ~IsNone(rejection)
    /\ pc = "done" => returned = Some(results)

\* C4 witness: a run that resolved with a wrapped non-Error from the executor
\* and an Error from the comparator among its results.
C4_Witness ==
    /\ pc = "done"
    /\ \E i, j \in 1..Len(results) :
          /\ results[i].unit \in executorThrew
          /\ results[i].error = Some([isError |-> TRUE, message |-> "boom"])
          /\ results[j].unit \in comparatorThrew
          /\ results[j].error = Some(CompareError)

\* C5: in runInBand mode at most one executor call is in flight, units are
\* dispatched in input order, and when the sleep or the executor call of a
\* unit begins every earlier unit is final: its call settled, its result
\* appended, its onResult promise settled.  onResult sees the results in
\* that order and the list returned is in input order.
C5_SequentialOrder ==
    requestExecutionStrategy = "runInBand" =>
        /\ Cardinality(inFlight) <= 1
        /\ calls = InputPrefix(Len(calls))
        /\ UnitsOf(results) = InputPrefix(Len(results))
        /\ onResultCalls = (IF hasOnResult THEN UnitsOf(results) ELSE <<>>)
        /\ pc = "sleeping" =>
              /\ inFlight = {} /\ cbPending = {}
              /\ Len(calls) = Len(results)
              /\ index = Len(results)
        /\ pc = "executing" =>
              /\ cbPending = {}
              /\ Len(calls) = Len(results) + 1
              /\ inFlight = {calls[Len(calls)]}
        /\ cbPending # {} =>
              /\ inFlight = {}
              /\ cbPending = {results[Len(results)].unit}
              /\ Len(calls) = Len(results)
        /\ pc = "done" => UnitsOf(Val(returned)) = InputPrefix(Len(Val(returned)))

\* C5 witness: the third unit's call is in flight after two sleeps, two
\* results and two settled onResult promises.
C5_Witness ==
    /\ requestExecutionStrategy = "runInBand"
    /\ hasOnResult
    /\ pc = "executing"
    /\ inFlight = {3}
    /\ Len(results) = 2
    /\ onResultCalls = <<1, 2>>
    /\ Len(sleeps) = 2

\* C7 as stated: executedUnit is null exactly when the executor call failed,
\* and comparison is null exactly when no comparison was made.
C7_NullIffExecutorFailed ==
    \A i \in 1..Len(results) :
        /\ IsNone(results[i].executedUnit) <=> results[i].unit \in executorThrew
        /\ IsNone(results[i].comparison) <=>
              results[i].unit \in (executorThrew \cup comparatorThrew)

\* C7 amended: executedUnit is null exactly when the executor call or the
\* comparator threw for that unit, and comparison is null in exactly the
\* same results.
C7_NullIffThrown ==
    \A i \in 1..Len(results) :
        /\ IsNone(results[i].executedUnit) <=>
              results[i].unit \in (executorThrew \cup comparatorThrew)
        /\ IsNone(results[i].comparison) <=>
              results[i].unit \in (executorThrew \cup comparatorThrew)

\* C7 witness: the executor answered, the comparator threw, and the result
\* holds neither an executed unit nor a comparison.
C7_Witness ==
    \E i \in 1..Len(results) :
        /\ results[i].unit \in comparatorThrew
        /\ results[i].unit \notin executorThrew
        /\ IsNone(results[i].executedUnit)
        /\ IsNone(results[i].comparison)

(***************************************************************************)
(* VariableResolver                                                        *)
(* A string is the sequence of its characters, so that the placeholder     *)
(* pattern is matched character by character as the regular expression     *)
(* does.                                                                   *)
(***************************************************************************)

\* The largest number of requests in one source.
MaxBlocks == 3

DEFAULT_MAX_INTERPOLATION_PASSES == 10

\* [a-zA-Z0-9_.-] and \s, over the characters the model's strings use.
NameChars == {"a", "b", "c", "x", "y", "X", "Y", "Z", "1", "2", "_", ".", "-",
              "v", "l", "u", "e", "O", "f"}
WhiteSpace == {" ", "\t"}

RECURSIVE SkipWhile(_, _, _)
\* The first position from i on whose character is not in class.
SkipWhile(s, i, class) ==
    IF i <= Len(s) /\ s[i] \in class THEN SkipWhile(s, i + 1, class) ELSE i

NoMatch == [ok |-> FALSE, name |-> <<>>, end |-> 0]

\* The name has been read from j to k - 1, the blanks after it up to m - 1:
\* the match ends with }} at m.
MatchClose(s, j, k, m) ==
    IF k > j /\ m + 1 <= Len(s) /\ s[m] = "}" /\ s[m + 1] = "}"
    THEN [ok |-> TRUE, name |-> SubSeq(s, j, k - 1), end |-> m + 1]
    ELSE NoMatch

MatchName(s, j, k) == MatchClose(s, j, k, SkipWhile(s, k, WhiteSpace))

MatchOpen(s, j) == MatchName(s, j, SkipWhile(s, j, NameChars))

\* PLACEHOLDER_PATTERN tried at position i: {{ \s* ([a-zA-Z0-9_.-]+) \s* }}.
\* The three classes are disjoint, so the greedy match is the only one.
MatchAt(s, i) ==
    IF i + 1 <= Len(s) /\ s[i] = "{" /\ s[i + 1] = "{"
    THEN MatchOpen(s, SkipWhile(s, i + 2, WhiteSpace))
    ELSE NoMatch

\* HAS_PLACEHOLDER_PATTERN.test(s)
HasPlaceholder(s) == \E i \in 1..Len(s) : MatchAt(s, i).ok

\* What a plain object answers for a key that is not its own: the members it
\* inherits from Object.prototype (one of them stands for all), as text.
ObjectPrototype ==
    [n \in {<<"v", "a", "l", "u", "e", "O", "f">>} |->
        <<"function valueOf() ", "{", " [native code] ", "}">>]

\* variables[variableName]: undefined is None.
Lookup(variables, name) ==
    IF name \in DOMAIN variables THEN Some(variables[name])
    ELSE IF name \in DOMAIN ObjectPrototype THEN Some(ObjectPrototype[name])
    ELSE None

Open == <<"{", "{">>
Close == <<"}", "}">>

RECURSIVE ReplacePass(_, _, _, _, _, _)
RECURSIVE ReplaceAt(_, _, _, _, _, _, _)
RECURSIVE ReplaceMatch(_, _, _, _, _, _, _)

\* The callback of replace for the match m, replacement being
\* variables[variableName]: an unknown name throws in strict mode and is
\* else written back as {{name}}; a known one is replaced by its value.
ReplaceMatch(s, variables, strict, acc, changed, m, replacement) ==
    IF IsNone(replacement)
    THEN IF strict
         THEN [output |-> acc, changed |-> changed, thrown |-> Some(m.name)]
         ELSE ReplacePass(s, m.end + 1, variables, strict,
                          acc \o Open \o m.name \o Close, changed)
    ELSE ReplacePass(s, m.end + 1, variables, strict, acc \o Val(replacement), TRUE)

ReplaceAt(s, i, variables, strict, acc, changed, m) ==
    IF ~m.ok
    THEN ReplacePass(s, i + 1, variables, strict, Append(acc, s[i]), changed)
    ELSE ReplaceMatch(s, variables, strict, acc, changed, m, Lookup(variables, m.name))

\* output.replace(PLACEHOLDER_PATTERN, callback) from position i on: one
\* pass from left to right over the matches, which do not overlap.
ReplacePass(s, i, variables, strict, acc, changed) ==
    IF i > Len(s) THEN [output |-> acc, changed |-> changed, thrown |-> None]
    ELSE ReplaceAt(s, i, variables, strict, acc, changed, MatchAt(s, i))

RECURSIVE InterpolateLoop(_, _, _, _, _)
RECURSIVE InterpolateAfterPass(_, _, _, _, _, _)

\* Line 148, r being the outcome of the pass: stop, or the next pass.
\* passes counts the calls of replace.
InterpolateAfterPass(output, pass, variables, maxPasses, strict, r) ==
    IF ~IsNone(r.thrown) THEN [value |-> output, thrown |-> r.thrown, passes |-> pass + 1]
    ELSE IF ~r.changed \/ ~HasPlaceholder(r.output)
    THEN [value |-> r.output, thrown |-> None, passes |-> pass + 1]
    ELSE InterpolateLoop(r.output, pass + 1, variables, maxPasses, strict)

\* A plausible slip: the loop test lets one pass more through.
InterpolateLoopOneMore(output, pass, variables, maxPasses, strict) ==
    IF pass > maxPasses THEN [value |-> output, thrown |-> None, passes |-> pass]
    ELSE InterpolateAfterPass(output, pass, variables, maxPasses, strict,
                              ReplacePass(output, 1, variables, strict, <<>>, FALSE))

\* The for loop of interpolateString from pass on.
InterpolateLoop(output, pass, variables, maxPasses, strict) ==
    IF pass >= maxPasses THEN [value |-> output, thrown |-> None, passes |-> pass]
    ELSE InterpolateAfterPass(output, pass, variables, maxPasses, strict,
                              ReplacePass(output, 1, variables, strict, <<>>, FALSE))

\* A plausible slip: one pass only, whatever the cap.
interpolateStringOnePass(input, variables) ==
    InterpolateLoop(input, 0, variables, Min(1, maxInterpolationPasses),
                    throwOnUnresolved)

\* interpolateString: passes until nothing changes, no placeholder is left
\* or the cap is reached.
interpolateString(input, variables) ==
    InterpolateLoop(input, 0, variables, maxInterpolationPasses, throwOnUnresolved)

IsBlank(key) == \A i \in 1..Len(key) : key[i] \in WhiteSpace
Put(map, k, v) == [x \in DOMAIN map \cup {k} |-> IF x = k THEN v ELSE map[x]]

RECURSIVE ToVariableMapFrom(_, _, _)
ToVariableMapFrom(variables, i, map) ==
    IF i > Len(variables) THEN map
    ELSE IF IsBlank(variables[i].key) THEN ToVariableMapFrom(variables, i + 1, map)
    ELSE ToVariableMapFrom(variables, i + 1,
                           Put(map, variables[i].key, variables[i].value))

\* toVariableMap: later pairs overwrite earlier ones, blank keys are skipped.
toVariableMap(variables) == ToVariableMapFrom(variables, 1, <<>>)

\* {...a, ...b}
Spread(a, b) == [x \in DOMAIN a \cup DOMAIN b |-> IF x \in DOMAIN b THEN b[x] ELSE a[x]]

RECURSIVE LeakedBlockVariables(_, _)
LeakedBlockVariables(requests, i) ==
    IF i = 0 THEN <<>>
    ELSE Spread(LeakedBlockVariables(requests, i - 1),
                toVariableMap(requests[i].blockVariables))

\* A plausible slip: one variable table filled as the requests go by.
MergedVariablesLeaky(a, i) ==
    Spread(toVariableMap(a.fileVariables), LeakedBlockVariables(a.requests, i))

\* Lines 36-45: the file variables overridden by request i's block variables.
MergedVariables(a, i) ==
    Spread(toVariableMap(a.fileVariables), toVariableMap(a.requests[i].blockVariables))

\* A plausible slip: the spread the other way round.
ExpectedVariablesReversed(variables, expectedResponse) ==
    Spread(toVariableMap(expectedResponse.variables), variables)

\* Lines 87-90: the request's scope overridden by the block's own variables.
ExpectedVariables(variables, expectedResponse) ==
    Spread(variables, toVariableMap(expectedResponse.variables))

Interpolated(r) == [value |-> Some(r.value), thrown |-> r.thrown]
NotInterpolated == [value |-> None, thrown |-> None]

\* x === null ? null : interpolateString(x, variables)
InterpolateOption(o, variables) ==
    IF IsNone(o) THEN NotInterpolated
    ELSE Interpolated(interpolateString(Val(o), variables))

\* headers.map(...): every name, then its value.
InterpolateHeaders(headers, variables) ==
    [i \in 1..Len(headers) |->
        [name |-> interpolateString(headers[i].name, variables),
         value |-> interpolateString(headers[i].value, variables)]]

HeaderValues(hs) == [i \in 1..Len(hs) |-> [name |-> hs[i].name.value,
                                           value |-> hs[i].value.value]]

RECURSIVE FirstThrown(_, _)
\* The first throw among interpolations listed in the order they are made.
FirstThrown(rs, i) ==
    IF i > Len(rs) THEN None
    ELSE IF ~IsNone(rs[i]) THEN rs[i]
    ELSE FirstThrown(rs, i + 1)

RECURSIVE HeaderThrows(_, _)
HeaderThrows(hs, i) ==
    IF i > Len(hs) THEN <<>>
    ELSE <<hs[i].name.thrown, hs[i].value.thrown>> \o HeaderThrows(hs, i + 1)

BodyOf(raw, ct) ==
    [value |-> Some([raw |-> raw.value, contentType |-> ct.value]),
     thrown |-> FirstThrown(<<raw.thrown, ct.thrown>>, 1)]

\* interpolateUnknown on the body object: each string member is interpolated.
InterpolateBody(body, variables) ==
    IF IsNone(body) THEN NotInterpolated
    ELSE BodyOf(interpolateString(Val(body).raw, variables),
                InterpolateOption(Val(body).contentType, variables))

ExpectedOf(expected, statusText, headers, body) ==
    [value |-> Some([expected EXCEPT !.statusText = statusText.value,
                                     !.headers = HeaderValues(headers),
                                     !.body = body.value]),
     thrown |-> FirstThrown(<<statusText.thrown>> \o HeaderThrows(headers, 1)
                            \o <<body.thrown>>, 1)]

\* Lines 92-106 under expectedVariables.
InterpolateExpected(expected, expectedVariables) ==
    ExpectedOf(expected,
               InterpolateOption(expected.statusText, expectedVariables),
               InterpolateHeaders(expected.headers, expectedVariables),
               InterpolateOption(expected.body, expectedVariables))

\* Lines 85-107.
ResolveExpected(expectedResponse, variables) ==
    IF IsNone(expectedResponse) THEN NotInterpolated
    ELSE InterpolateExpected(Val(expectedResponse),
                             ExpectedVariables(variables, Val(expectedResponse)))

\* A plausible slip: the resolved request is built without the block
\* variables it was resolved under.
RequestOfWithoutVariables(request, url, headers, body, expected) ==
    [thrown |-> FirstThrown(<<url.thrown>> \o HeaderThrows(headers, 1)
                            \o <<body.thrown, expected.thrown>>, 1),
     value |-> [request EXCEPT !.url = url.value,
                               !.headers = HeaderValues(headers),
                               !.body = body.value,
                               !.blockVariables = <<>>,
                               !.expectedResponse = expected.value]]

\* Lines 72-109: the clone with the interpolated parts written into it.
RequestOf(request, url, headers, body, expected) ==
    [thrown |-> FirstThrown(<<url.thrown>> \o HeaderThrows(headers, 1)
                            \o <<body.thrown, expected.thrown>>, 1),
     value |-> [request EXCEPT !.url = url.value,
                               !.headers = HeaderValues(headers),
                               !.body = body.value,
                               !.expectedResponse = expected.value]]

\* resolveRequest: a clone of the request with url, headers and body
\* interpolated under variables, and the expected response's status text,
\* headers and body under the expected block's scope.
resolveRequest(request, variables) ==
    RequestOf(request,
              interpolateString(request.url, variables),
              InterpolateHeaders(request.headers, variables),
              InterpolateBody(request.body, variables),
              ResolveExpected(request.expectedResponse, variables))

UnitOf(i, r) ==
    [thrown |-> r.thrown,
     value |-> [sourceType |-> "inline", requestIndex |-> i - 1, request |-> r.value]]

\* The callback of requests.map for request i (1-based here, requestIndex
\* is i - 1): the unit, or what resolveRequest threw.
ResolveUnit(a, i) == UnitOf(i, resolveRequest(a.requests[i], MergedVariables(a, i)))

\* ---- the sources the resolver is run on

NoVariables == <<>>
\* @x = X, a pair with a blank key, @x = 1: x is 1
FileX == <<[key |-> <<"x">>, value |-> <<"X">>], [key |-> <<" ">>, value |-> <<"Z">>], [key |-> <<"x">>, value |-> <<"1">>]>>
\* @a = X, @b = {{a}}Y, @c = {{b}}Z
FileChain == <<[key |-> <<"a">>, value |-> <<"X">>], [key |-> <<"b">>, value |-> <<"{", "{", "a", "}", "}", "Y">>], [key |-> <<"c">>, value |-> <<"{", "{", "b", "}", "}", "Z">>]>>
\* @a = {{b}}, @b = {{a}}
FileCycle == <<[key |-> <<"a">>, value |-> <<"{", "{", "b", "}", "}">>], [key |-> <<"b">>, value |-> <<"{", "{", "a", "}", "}">>]>>
\* @a = {{ (an opening that is closed by the text after the placeholder)
FileBrace == <<[key |-> <<"a">>, value |-> <<"{", "{">>], [key |-> <<"x">>, value |-> <<"1">>]>>
FileVariableChoices == {NoVariables, FileX, FileChain, FileCycle, FileBrace}

NoExpected == None
Request(url, headers, body, blockVariables, expectedResponse) ==
    [method |-> "GET", url |-> url, headers |-> headers, body |-> body,
     blockVariables |-> blockVariables, expectedResponse |-> expectedResponse]
Expected(statusText, headers, body, variables) ==
    Some([statusCode |-> 200, statusText |-> statusText, headers |-> headers,
          body |-> body, variables |-> variables])

\* GET /{{x}}
RequestPlain == Request(<<"/", "{", "{", "x", "}", "}">>, <<>>, None, <<>>, NoExpected)
\* @x = 2 / GET /{{x}} / expected block: @x = Z, body {{x}}
RequestOverride ==
    Request(<<"/", "{", "{", "x", "}", "}">>, <<>>, None, <<[key |-> <<"x">>, value |-> <<"2">>]>>,
            Expected(None, <<>>, Some(<<"{", "{", "x", "}", "}">>), <<[key |-> <<"x">>, value |-> <<"Z">>]>>))
\* GET {{c}} with a header, a body and an expected block that use the chain
RequestChain ==
    Request(<<"{", "{", "c", "}", "}">>,
            <<[name |-> <<"{", "{", " ", "a", " ", "}", "}">>, value |-> <<"{", "{", "b", "}", "}">>]>>,
            Some([raw |-> <<"{", "{", "c", "}", "}">>, contentType |-> Some(<<"{", "{", "a", "}", "}">>)]),
            <<>>,
            Expected(Some(<<"{", "{", "c", "}", "}">>),
                     <<[name |-> <<"Y">>, value |-> <<"{", "{", " ", "c", "}", "}">>]>>,
                     None, <<>>))
\* @a = Z / GET {{b}}: the block value of a is used inside the file's b
RequestBlockChain ==
    Request(<<"{", "{", "b", "}", "}">>, <<>>, None, <<[key |-> <<"a">>, value |-> <<"Z">>]>>, NoExpected)
\* GET /{{ y }} / expected block: @y = 1, body {{y}}
RequestUnknown ==
    Request(<<"/", "{", "{", " ", "y", " ", "}", "}">>, <<>>, None, <<>>,
            Expected(None, <<>>, Some(<<"{", "{", "y", "}", "}">>), <<[key |-> <<"y">>, value |-> <<"1">>]>>))
\* GET {{valueOf}}
RequestInherited == Request(<<"{", "{", "v", "a", "l", "u", "e", "O", "f", "}", "}">>, <<>>, None, <<>>, NoExpected)
\* GET {{a}}y}}
RequestGlue == Request(<<"{", "{", "a", "}", "}", "y", "}", "}">>, <<>>, None, <<>>, NoExpected)
\* @x = 2 / GET /{x}} with a header X: {{ }}, a body {{x y}} and an expected
\* block with @x = Z: braces and names, but nothing the pattern matches
RequestLiteral ==
    Request(<<"/", "{", "x", "}", "}">>,
            <<[name |-> <<"X">>, value |-> <<"{", "{", " ", "}", "}">>]>>,
            Some([raw |-> <<"{", "{", "x", " ", "y", "}", "}">>, contentType |-> None]),
            <<[key |-> <<"x">>, value |-> <<"2">>]>>,
            Expected(Some(<<"x">>), <<[name |-> <<"Y">>, value |-> <<"1">>]>>,
                     Some(<<"{", "}">>), <<[key |-> <<"x">>, value |-> <<"Z">>]>>))

RequestChoices == {RequestPlain, RequestOverride, RequestChain, RequestBlockChain,
                   RequestUnknown, RequestInherited, RequestGlue, RequestLiteral}

Sources ==
    {[fileVariables |-> f, requests |-> rs] :
        f \in FileVariableChoices,
        rs \in UNION {[1..n -> RequestChoices] : n \in 0..MaxBlocks}}

\* options.maxInterpolationPasses as the caller may set it.
PassOptions == {2, DEFAULT_MAX_INTERPOLATION_PASSES}

RInit ==
    /\ rpc = "idle"
    /\ throwOnUnresolved \in BOOLEAN
    /\ maxInterpolationPasses \in PassOptions
    /\ ast \in Sources
    /\ resolved = <<>>
    /\ rerror = None

\* resolveSource is entered: the file variables are read, the map begins.
ResolveSource ==
    /\ rpc = "idle"
    /\ rpc' = "mapping"
    /\ UNCHANGED <<throwOnUnresolved, maxInterpolationPasses, ast, resolved, rerror,
                   ovars, hvars, cvars, pvars>>

\* A plausible slip: resolveRequest without the clone, so that what it
\* assigns is assigned to request i of the source.
InputAfterWithoutClone(a, i, u) == [a EXCEPT !.requests[i] = u.value.request]

\* Line 72: resolveRequest assigns to a structuredClone of request i, and
\* map, the spread of each header and interpolateUnknown build new arrays
\* and objects: the source is as it was.
InputAfter(a, i, u) == a

\* The unit u is pushed, or the throw leaves resolveSource.
ResolveStep(u) ==
    IF IsNone(u.thrown)
    THEN /\ resolved' = Append(resolved, u.value)
         /\ UNCHANGED <<rpc, rerror>>
    ELSE /\ rpc' = "threw"
         /\ rerror' = u.thrown
         /\ UNCHANGED resolved

\* The map's callback for the next request: its unit, or the throw that
\* ends resolveSource.
ResolveRequest ==
    /\ rpc = "mapping"
    /\ Len(resolved) < Len(ast.requests)
    /\ ResolveStep(ResolveUnit(ast, Len(resolved) + 1))
    /\ ast' = InputAfter(ast, Len(resolved) + 1, ResolveUnit(ast, Len(resolved) + 1))
    /\ UNCHANGED <<throwOnUnresolved, maxInterpolationPasses, ovars, hvars, cvars, pvars>>

\* The map is over: resolveSource returns the units.
ResolveReturn ==
    /\ rpc = "mapping"
    /\ Len(resolved) = Len(ast.requests)
    /\ rpc' = "returned"
    /\ UNCHANGED <<throwOnUnresolved, maxInterpolationPasses, ast, resolved, rerror,
                   ovars, hvars, cvars, pvars>>

OIdle ==
    /\ options = <<>>
    /\ bail = None
    /\ maxRequests = None
    /\ defaultTimeBetweenRequests = 0
    /\ requestExecutionStrategy = "concurrent"
    /\ units = <<>>
    /\ hasOnResult = FALSE
    /\ pc = "idle"
    /\ executionUnits = <<>>
    /\ index = 0
    /\ results = <<>>
    /\ failedCount = 0
    /\ inFlight = {}
    /\ cbPending = {}
    /\ calls = <<>>
    /\ onResultCalls = <<>>
    /\ sleeps = <<>>
    /\ executorThrew = {}
    /\ comparatorThrew = {}
    /\ returned = None
    /\ rejection = None

InitResolver == RInit /\ OIdle /\ HIdle /\ CIdle /\ PIdle

NextResolver ==
    \/ ResolveSource
    \/ ResolveRequest
    \/ ResolveReturn

SpecResolver == InitResolver /\ [][NextResolver]_vars

\* ---- properties of the resolver

\* The source that holds request i of a alone, under the same file variables.
Only(a, i) == [fileVariables |-> a.fileVariables, requests |-> <<a.requests[i]>>]

\* The README's scope reset demo: @x = 1 in the file, @x = 2 in block 2.
ScopeResetDemo == [fileVariables |-> FileX,
                   requests |-> <<RequestPlain, RequestOverride, RequestPlain>>]

\* C8: block variables are request-local. Every resolved request is what the
\* same request resolves to when it stands alone in the source under the same
\* file variables, wherever it stands and whatever the other requests declare;
\* in the scope reset demo blocks 1 and 3 resolve x to 1 and block 2 to 2.
C8_BlockVariablesAreLocal ==
    /\ \A i \in 1..Len(resolved) :
          resolved[i].request = ResolveUnit(Only(ast, i), 1).value.request
    /\ (ast = ScopeResetDemo /\ Len(resolved) = 3) =>
          /\ resolved[1].request.url = <<"/", "1">>
          /\ resolved[2].request.url = <<"/", "2">>
          /\ resolved[3].request.url = <<"/", "1">>

\* The demo has been resolved to the end: a block that overrides a file
\* variable stands between two blocks that read it.
C8_Witness ==
    /\ rpc = "returned"
    /\ ast = ScopeResetDemo
    /\ Len(resolved) = 3
    /\ resolved[2].request.url # resolved[1].request.url

\* A declaration list declares n (pairs with a blank key declare nothing).
Declares(list, n) == \E k \in 1..Len(list) : list[k].key = n /\ ~IsBlank(n)
\* The value of n in a list that declares it: the last declaration.
Declared(list, n) ==
    list[CHOOSE k \in 1..Len(list) :
            /\ list[k].key = n
            /\ \A l \in (k + 1)..Len(list) : list[l].key # n].value
\* The value of n under layers listed from the lowest to the highest.
Defined(layers, n) == \E l \in 1..Len(layers) : Declares(layers[l], n)
LayerValue(layers, n) ==
    Declared(layers[CHOOSE l \in 1..Len(layers) :
                       /\ Declares(layers[l], n)
                       /\ \A h \in (l + 1)..Len(layers) : ~Declares(layers[h], n)], n)

Names == {<<"x">>, <<"y">>, <<"a">>, <<"b">>, <<"c">>}
Prefixes == {<<>>, <<"/">>}
BraceFree(s) == \A k \in 1..Len(s) : s[k] \notin {"{", "}"}

\* The text field is a prefix and then {{n}}, n being defined under layers
\* with a value that has no brace: it must come out as the prefix and then
\* the value the highest layer gives n.
ResolvesByLayer(field, out, layers) ==
    \A n \in Names, prefix \in Prefixes :
        (/\ field = prefix \o Open \o n \o Close
         /\ Defined(layers, n)
         /\ BraceFree(LayerValue(layers, n)))
        => out = prefix \o LayerValue(layers, n)

RequestLayers(a, i) == <<a.fileVariables, a.requests[i].blockVariables>>
ExpectedLayers(a, i) ==
    RequestLayers(a, i) \o <<Val(a.requests[i].expectedResponse).variables>>

\* Request i with the declarations of its expected block erased.
WithoutExpectedVariables(request) ==
    IF IsNone(request.expectedResponse) THEN request
    ELSE [request EXCEPT !.expectedResponse =
             Some([Val(request.expectedResponse) EXCEPT !.variables = <<>>])]

\* C9: scope precedence is file < block < expected block. A url that reads a
\* name gets the block's value over the file's; an expected body or status
\* text that reads a name gets the expected block's value over both; and the
\* request's url, headers and body are what they would be if the expected
\* block declared nothing.
C9_ScopePrecedence ==
    \A i \in 1..Len(resolved) :
        /\ ResolvesByLayer(ast.requests[i].url, resolved[i].request.url,
                           RequestLayers(ast, i))
        /\ ~IsNone(ast.requests[i].expectedResponse) =>
             /\ ~IsNone(Val(ast.requests[i].expectedResponse).body) =>
                  ResolvesByLayer(Val(Val(ast.requests[i].expectedResponse).body),
                                  Val(Val(resolved[i].request.expectedResponse).body),
                                  ExpectedLayers(ast, i))
             /\ ~IsNone(Val(ast.requests[i].expectedResponse).statusText) =>
                  ResolvesByLayer(Val(Val(ast.requests[i].expectedResponse).statusText),
                                  Val(Val(resolved[i].request.expectedResponse).statusText),
                                  ExpectedLayers(ast, i))
        /\ \A other \in {resolveRequest(WithoutExpectedVariables(ast.requests[i]),
                                        MergedVariables(ast, i)).value} :
             /\ resolved[i].request.url = other.url
             /\ resolved[i].request.headers = other.headers
             /\ resolved[i].request.body = other.body

\* x is declared in all three layers (1 in the file, 2 in the block, Z in
\* the expected block): the url reads the block's, the expected body the
\* expected block's.
C9_Witness ==
    \E i \in 1..Len(resolved) :
        /\ ast.fileVariables = FileX
        /\ ast.requests[i] = RequestOverride
        /\ resolved[i].request.url = <<"/", "2">>
        /\ Val(resolved[i].request.expectedResponse).body = Some(<<"Z">>)

\* The names a text reads.
Refs(s) == {MatchAt(s, i).name : i \in {j \in 1..Len(s) : MatchAt(s, j).ok}}

RECURSIVE ReachableNames(_, _, _)
\* The names read from names on through the values of scope, k steps deep.
ReachableNames(names, scope, k) ==
    IF k = 0 THEN names
    ELSE ReachableNames(
            names \cup UNION {Refs(scope[n]) : n \in names \cap DOMAIN scope},
            scope, k - 1)

\* Every variable the text reads, directly or through the values of other
\* variables, is defined in scope.
AllReferencesDefined(s, scope) ==
    ReachableNames(Refs(s), scope, Cardinality(DOMAIN scope)) \subseteq DOMAIN scope

\* The text has a brace that is not part of a complete placeholder.
Stray(s) ==
    \E k \in 1..Len(s) :
        /\ s[k] \in {"{", "}"}
        /\ ~\E i \in 1..k : MatchAt(s, i).ok /\ k <= MatchAt(s, i).end

RECURSIVE ResolvableWithin(_, _, _)
\* The text is resolved by k passes: its braces all belong to placeholders,
\* and what it reads is defined by values that k - 1 passes resolve.
ResolvableWithin(s, scope, k) ==
    /\ ~Stray(s)
    /\ \/ Refs(s) = {}
       \/ /\ k > 0
          /\ \A n \in Refs(s) :
                /\ n \in DOMAIN scope
                /\ ResolvableWithin(scope[n], scope, k - 1)

OptionText(o) == IF IsNone(o) THEN {} ELSE {Val(o)}
HeaderFields(hs, outs, scope) ==
    UNION {{[in |-> hs[k].name, out |-> outs[k].name, scope |-> scope],
            [in |-> hs[k].value, out |-> outs[k].value, scope |-> scope]} :
           k \in 1..Len(hs)}
PairUp(ins, outs, scope) ==
    {[in |-> x, out |-> y, scope |-> scope] : x \in ins, y \in outs}
ExpectedFields(e, out, scope) ==
    HeaderFields(e.headers, out.headers, scope)
    \cup PairUp(OptionText(e.statusText), OptionText(out.statusText), scope)
    \cup PairUp(OptionText(e.body), OptionText(out.body), scope)
BodyFields(b, out, scope) ==
    {[in |-> b.raw, out |-> out.raw, scope |-> scope]}
    \cup PairUp(OptionText(b.contentType), OptionText(out.contentType), scope)

\* Every interpolated text field of request i: what was written, what it
\* was resolved to, and the scope it was resolved under.
ResolvedFields(a, i, out) ==
    {[in |-> a.requests[i].url, out |-> out.url, scope |-> MergedVariables(a, i)]}
    \cup HeaderFields(a.requests[i].headers, out.headers, MergedVariables(a, i))
    \cup (IF IsNone(a.requests[i].body) THEN {}
          ELSE BodyFields(Val(a.requests[i].body), Val(out.body), MergedVariables(a, i)))
    \cup (IF IsNone(a.requests[i].expectedResponse) THEN {}
          ELSE ExpectedFields(Val(a.requests[i].expectedResponse),
                              Val(out.expectedResponse),
                              ExpectedVariables(MergedVariables(a, i),
                                                Val(a.requests[i].expectedResponse))))

AllResolvedFields ==
    UNION {ResolvedFields(ast, i, resolved[i].request) : i \in 1..Len(resolved)}

\* C10 as stated: strict mode off, every variable a field reads (directly or
\* through other variables) defined in its scope: the resolved field has no
\* placeholder left.
C10_NoPlaceholderWhenDefined ==
    ~throwOnUnresolved =>
        \A f \in AllResolvedFields :
            AllReferencesDefined(f.in, f.scope) => ~HasPlaceholder(f.out)

\* C10 amended: strict mode off, the definitions a field reads are acyclic
\* and nest no deeper than maxInterpolationPasses, and every brace in the
\* field and in those values is part of a complete placeholder: the resolved
\* field has no placeholder and no brace left; the chain a = X, b = {{a}}Y,
\* c = {{b}}Z makes {{c}} XYZ under the default cap.
C10_NoPlaceholderWithinCap ==
    /\ ~throwOnUnresolved =>
          \A f \in AllResolvedFields :
              ResolvableWithin(f.in, f.scope, maxInterpolationPasses)
                  => (~HasPlaceholder(f.out) /\ BraceFree(f.out))
    /\ \A i \in 1..Len(resolved) :
          (/\ ast.fileVariables = FileChain
           /\ ast.requests[i] = RequestChain
           /\ maxInterpolationPasses = DEFAULT_MAX_INTERPOLATION_PASSES)
          => resolved[i].request.url = <<"X", "Y", "Z">>

\* The chain has been resolved through three levels with strict mode off.
C10_Witness ==
    \E i \in 1..Len(resolved) :
        /\ ~throwOnUnresolved
        /\ ast.fileVariables = FileChain
        /\ ast.requests[i] = RequestChain
        /\ ResolvableWithin(ast.requests[i].url, MergedVariables(ast, i),
                            maxInterpolationPasses)
        /\ resolved[i].request.url = <<"X", "Y", "Z">>

(***************************************************************************)
(* HttpExecutor.execute (src/executor/http-executor.ts)                    *)
(*                                                                         *)
(* One call of execute against a server that answers when it likes: the    *)
(* response (status line and headers) settles fetch, the body is read by   *)
(* response.text() afterwards. clock is performance.now() in whole units.  *)
(***************************************************************************)

\* options.timeout ranges over 1..MaxTimeout; execute is entered no later
\* than MaxStart; the clock stops at MaxClock.
MaxTimeout == 3
MaxStart == 2
MaxClock == MaxStart + MaxTimeout + 2

UrlRequiredError == [isError |-> TRUE, message |-> "Request URL is required"]
\* `Request timed out after ${this.timeout}ms: ${url}`
TimeoutError(t) == [isError |-> TRUE, message |-> "Request timed out after", timeout |-> t]
BodyError == [isError |-> TRUE, message |-> "body stream failed"]

HInit ==
    /\ timeout \in 1..MaxTimeout
    /\ clock = 0
    /\ hpc = "idle"
    /\ startedAt = None
    /\ endedAt = None
    /\ timerArmed = FALSE
    /\ timerDeadline = 0
    /\ aborted = FALSE
    /\ herror = None
    /\ durationMs = None

\* Time passes. A timer that is due runs before the clock moves on, and so
\* does the rejection that an abort brings about.
Tick ==
    /\ clock < MaxClock
    /\ \/ hpc = "idle" /\ clock < MaxStart
       \/ hpc = "fetching" /\ ~aborted
       \/ hpc = "readingBody"
    /\ ~(timerArmed /\ clock >= timerDeadline)
    /\ clock' = clock + 1
    /\ UNCHANGED <<timeout, hpc, startedAt, endedAt, timerArmed, timerDeadline,
                   aborted, herror, durationMs, ovars, rvars, cvars, pvars>>

\* execute up to its first await: a blank url throws; else startedAt is
\* taken and fetchWithTimeout arms the timer and starts fetch.
HttpExecute(urlBlank) ==
    /\ hpc = "idle"
    /\ IF urlBlank
       THEN /\ hpc' = "threw"
            /\ herror' = Some(UrlRequiredError)
            /\ UNCHANGED <<startedAt, timerArmed, timerDeadline>>
       ELSE /\ hpc' = "fetching"
            /\ startedAt' = Some(clock)
            /\ timerArmed' = TRUE
            /\ timerDeadline' = clock + timeout
            /\ UNCHANGED herror
    /\ UNCHANGED <<timeout, clock, endedAt, aborted, durationMs, ovars, rvars, cvars, pvars>>

\* The callback of setTimeout: controller.abort().
TimerFire ==
    /\ timerArmed
    /\ clock >= timerDeadline
    /\ aborted' = TRUE
    /\ timerArmed' = FALSE
    /\ UNCHANGED <<timeout, clock, hpc, startedAt, endedAt, timerDeadline, herror,
                   durationMs, ovars, rvars, cvars, pvars>>

\* fetch resolves with the response: finally clears the timer, endedAt is
\* taken, response.text() is awaited.
FetchResolve ==
    /\ hpc = "fetching"
    /\ ~aborted
    /\ timerArmed' = FALSE
    /\ endedAt' = Some(clock)
    /\ hpc' = "readingBody"
    /\ UNCHANGED <<timeout, clock, startedAt, timerDeadline, aborted, herror,
                   durationMs, ovars, rvars, cvars, pvars>>

\* fetch rejects: an AbortError (the signal was aborted) is rethrown as the
\* timeout error, anything else as it is; finally clears the timer.
FetchReject ==
    /\ hpc = "fetching"
    /\ herror' = Some(IF aborted THEN TimeoutError(timeout) ELSE NetworkError)
    /\ timerArmed' = FALSE
    /\ hpc' = "threw"
    /\ UNCHANGED <<timeout, clock, startedAt, endedAt, timerDeadline, aborted,
                   durationMs, ovars, rvars, cvars, pvars>>

\* response.text() resolves: the executed unit is returned, its durationMs
\* taken from the two readings of the clock.
BodyResolve ==
    /\ hpc = "readingBody"
    /\ durationMs' = Some(Max(0, Val(endedAt) - Val(startedAt)))
    /\ hpc' = "returned"
    /\ UNCHANGED <<timeout, clock, startedAt, endedAt, timerArmed, timerDeadline,
                   aborted, herror, ovars, rvars, cvars, pvars>>

\* response.text() rejects: the stream broke.
BodyReject ==
    /\ hpc = "readingBody"
    /\ herror' = Some(BodyError)
    /\ hpc' = "threw"
    /\ UNCHANGED <<timeout, clock, startedAt, endedAt, timerArmed, timerDeadline,
                   aborted, durationMs, ovars, rvars, cvars, pvars>>

InitExecutor == HInit /\ OIdle /\ RIdle /\ CIdle /\ PIdle

NextExecutor ==
    \/ Tick
    \/ \E urlBlank \in BOOLEAN : HttpExecute(urlBlank)
    \/ TimerFire
    \/ FetchResolve
    \/ FetchReject
    \/ BodyResolve
    \/ BodyReject

SpecExecutor == InitExecutor /\ [][NextExecutor]_vars

\* ---- properties of the executor

\* C6: a call is bound to the timeout for its whole duration, the body
\* included: no call is still pending once more than the timeout has passed
\* since it began.
C6_CallBoundedByTimeout ==
    hpc \in {"fetching", "readingBody"} => clock - Val(startedAt) <= timeout

\* ---- properties of the resolver in strict mode and on unknown names

\* C11: in strict mode no resolved field holds a placeholder: resolution
\* removed them all or threw, also when the pass cap was reached.
C11_StrictLeavesNoPlaceholder ==
    throwOnUnresolved =>
        \A f \in AllResolvedFields : ~HasPlaceholder(f.out)

\* C12: with strict mode off a field whose placeholders all name variables
\* that are not declared in its scope comes out exactly as it was written.
C12_UnknownLeftVerbatim ==
    ~throwOnUnresolved =>
        \A f \in AllResolvedFields :
            Refs(f.in) \cap DOMAIN f.scope = {} => f.out = f.in

\* ---- further properties of ExecutionOrchestrator.execute (under Spec)

NoDuplicates(seq) == \A i, j \in 1..Len(seq) : seq[i] = seq[j] => i = j

\* C20: in concurrent mode every completion appends that unit's result and
\* hands it to onResult at once, so the callback is invoked once per unit in
\* completion order and the list returned is in that same order; execute
\* resolves only when no callback promise is pending.
C20_ConcurrentCallbackOrder ==
    /\ [](requestExecutionStrategy = "concurrent" =>
            /\ NoDuplicates(onResultCalls)
            /\ hasOnResult => onResultCalls = UnitsOf(results)
            /\ ~hasOnResult => onResultCalls = <<>>
            /\ cbPending \subseteq Range(onResultCalls)
            /\ pc = "done" =>
                  /\ cbPending = {}
                  /\ inFlight = {}
                  /\ returned = Some(results)
                  /\ hasOnResult => Len(onResultCalls) = PostCap)
    /\ [][(requestExecutionStrategy = "concurrent" /\ hasOnResult
           /\ inFlight' # inFlight /\ inFlight' \subseteq inFlight)
          => \E u \in inFlight \ inFlight' :
                /\ inFlight' = inFlight \ {u}
                /\ onResultCalls' = Append(onResultCalls, u)
                /\ UnitsOf(results') = Append(UnitsOf(results), u)
                /\ pc' # "done"]_vars

\* Three units completed as 2, 3, 1: the callback saw them in that order and
\* the list returned has that order.
C20_Witness ==
    /\ requestExecutionStrategy = "concurrent"
    /\ hasOnResult
    /\ pc = "done"
    /\ onResultCalls = <<2, 3, 1>>
    /\ UnitsOf(Val(returned)) = <<2, 3, 1>>

(***************************************************************************)
(* ResponseComparator and StrategySelector                                 *)
(* (src/comparator/response-comparator.ts, strategy-selector.ts)           *)
(*                                                                         *)
(* Texts are sequences of characters.  A JSON value is a record of one     *)
(* shape: t is its type, s the characters of a number or a string, m the   *)
(* members of an object (key k, value v) or the elements of an array (k    *)
(* is empty), in the order they were written.                              *)
(***************************************************************************)

UpperToLower ==
    "A" :> "a" @@ "B" :> "b" @@ "C" :> "c" @@ "D" :> "d" @@ "E" :> "e" @@ "F" :> "f" @@ "G" :> "g" @@ "H" :> "h" @@ "I" :> "i" @@ "J" :> "j" @@ "K" :> "k" @@ "L" :> "l" @@
    "M" :> "m" @@ "N" :> "n" @@ "O" :> "o" @@ "P" :> "p" @@ "Q" :> "q" @@ "R" :> "r" @@ "S" :> "s" @@ "T" :> "t" @@ "U" :> "u" @@ "V" :> "v" @@ "W" :> "w" @@ "X" :> "x" @@ "Y" :> "y" @@ "Z" :> "z"

\* String.prototype.toLowerCase, includes, trim, startsWith, endsWith.
toLowerCase(s) ==
    [i \in 1..Len(s) |-> IF s[i] \in DOMAIN UpperToLower THEN UpperToLower[s[i]] ELSE s[i]]
includes(s, sub) ==
    \E i \in 0..(Len(s) - Len(sub)) : SubSeq(s, i + 1, i + Len(sub)) = sub
startsWith(s, sub) == Len(sub) <= Len(s) /\ SubSeq(s, 1, Len(sub)) = sub
endsWith(s, sub) == Len(sub) <= Len(s) /\ SubSeq(s, Len(s) - Len(sub) + 1, Len(s)) = sub

\* What trim strips.
TrimSpace == WhiteSpace \cup {"\n", "\r"}

RECURSIVE TrimEnd(_)
TrimEnd(s) ==
    IF s # <<>> /\ s[Len(s)] \in TrimSpace THEN TrimEnd(SubSeq(s, 1, Len(s) - 1)) ELSE s
trim(s) == TrimEnd(SubSeq(s, SkipWhile(s, 1, TrimSpace), Len(s)))

\* ---- JSON values

JNull == [t |-> "null", s |-> <<>>, m |-> <<>>]
JNumber(digits) == [t |-> "number", s |-> digits, m |-> <<>>]
JString(chars) == [t |-> "string", s |-> chars, m |-> <<>>]
JArray(elements) ==
    [t |-> "array", s |-> <<>>,
     m |-> [i \in 1..Len(elements) |-> [k |-> "", v |-> elements[i]]]]
JObject(members) == [t |-> "object", s |-> <<>>, m |-> members]
Member(key, value) == [k |-> key, v |-> value]

\* The keys objects are written with, and their order under Array.sort
\* (by code unit).
Keys == {"a", "b"}
KeyRank == "a" :> 1 @@ "b" :> 2

RECURSIVE Join(_, _, _)
\* texts.join(separator) from element i on.
Join(texts, separator, i) ==
    IF i > Len(texts) THEN <<>>
    ELSE IF i = Len(texts) THEN texts[i]
    ELSE texts[i] \o separator \o Join(texts, separator, i + 1)

Quoted(chars) == <<"\"">> \o chars \o <<"\"">>

\* JSON.stringify of a number or a string (no character here needs an
\* escape).
JSONStringifyScalar(value) ==
    IF value.t = "string" THEN Quoted(value.s) ELSE value.s

\* Object.keys(record).sort(): the members in the order of their keys.
SortMembers(members) ==
    IF Len(members) <= 1 THEN members
    ELSE CHOOSE q \in {[i \in 1..Len(members) |-> members[p[i]]] :
                          p \in Permutations(1..Len(members))} :
            \A i \in 1..(Len(q) - 1) : KeyRank[q[i].k] < KeyRank[q[i + 1].k]

RECURSIVE stableStringify(_)
RECURSIVE StableEntries(_)
\* keys.map((key) => `${JSON.stringify(key)}:${this.stableStringify(record[key])}`)
StableEntries(sorted) ==
    [i \in 1..Len(sorted) |->
        Quoted(<<sorted[i].k>>) \o <<":">> \o stableStringify(sorted[i].v)]

\* stableStringify: null and scalars as JSON.stringify writes them, arrays
\* in their order, objects with their keys sorted.
stableStringify(value) ==
    IF value.t = "null" THEN <<"n", "u", "l", "l">>
    ELSE IF value.t \in {"number", "string"} THEN JSONStringifyScalar(value)
    ELSE IF value.t = "array"
    THEN <<"[">> \o Join([i \in 1..Len(value.m) |-> stableStringify(value.m[i].v)],
                         <<",">>, 1) \o <<"]">>
    ELSE <<"{">> \o Join(StableEntries(SortMembers(value.m)), <<",">>, 1) \o <<"}">>

RECURSIVE JSONStringify(_)
\* JSON.stringify: the text of a value, its keys in the order written.
JSONStringify(value) ==
    IF value.t = "null" THEN <<"n", "u", "l", "l">>
    ELSE IF value.t \in {"number", "string"} THEN JSONStringifyScalar(value)
    ELSE IF value.t = "array"
    THEN <<"[">> \o Join([i \in 1..Len(value.m) |-> JSONStringify(value.m[i].v)],
                         <<",">>, 1) \o <<"]">>
    ELSE <<"{">> \o Join([i \in 1..Len(value.m) |->
                             Quoted(<<value.m[i].k>>) \o <<":">>
                             \o JSONStringify(value.m[i].v)],
                         <<",">>, 1) \o <<"}">>

\* ---- the JSON values of the model and JSON.parse on their texts

\* Numbers are 1..MaxNumber.
MaxNumber == 2
Digits == <<"1", "2", "3", "4", "5", "6", "7", "8", "9">>
Numbers == {JNumber(<<Digits[n]>>) : n \in 1..MaxNumber}
KeyPairs == {q \in Keys \X Keys : q[1] # q[2]}
PairObjects ==
    {JObject(<<Member(q[1], x), Member(q[2], y)>>) :
        q \in KeyPairs, x \in Numbers, y \in Numbers}
FlatObjects ==
    {JObject(<<>>)} \cup {JObject(<<Member(k, x)>>) : k \in Keys, x \in Numbers}
    \cup PairObjects
Arrays == {JArray(<<>>)} \cup {JArray(<<x, y>>) : x \in Numbers, y \in Numbers}
\* An object inside an object, written before or after its sibling.
InnerObjects ==
    {JObject(<<Member(q[1], x), Member(q[2], JNumber(<<"1">>))>>) :
        q \in KeyPairs, x \in Numbers}
NestedObjects ==
    {JObject(<<Member(q[1], f), Member(q[2], JNumber(<<"1">>))>>) :
        q \in KeyPairs, f \in InnerObjects}
    \cup {JObject(<<Member(q[1], JNumber(<<"1">>)), Member(q[2], f)>>) :
             q \in KeyPairs, f \in InnerObjects}
Structures == FlatObjects \cup Arrays \cup NestedObjects
JsonValues == {JNull, JString(<<"A">>)} \cup Numbers \cup Structures

\* The text of each value, and the value of each text.
ParseTable ==
    [text \in {JSONStringify(v) : v \in JsonValues} |->
        CHOOSE v \in JsonValues : JSONStringify(v) = text]

Parsed(v) == [ok |-> TRUE, value |-> v]
SyntaxError == [ok |-> FALSE, value |-> JNull]

\* JSON.parse: white space around the text is skipped; a text that is not
\* the text of a value throws.
JSONParse(text) ==
    IF trim(text) \in DOMAIN ParseTable THEN Parsed(ParseTable[trim(text)])
    ELSE SyntaxError

\* ---- bodies as JavaScript values

NullBody == [kind |-> "null", text |-> <<>>, json |-> JNull]
TextBody(chars) == [kind |-> "string", text |-> chars, json |-> JNull]
ObjectBody(v) == [kind |-> "object", text |-> <<>>, json |-> v]
NumberBody(v) == [kind |-> "number", text |-> <<>>, json |-> v]

\* The JavaScript value JSON.parse returns for a JSON value.
ToJsValue(v) ==
    IF v.t = "null" THEN NullBody
    ELSE IF v.t = "string" THEN TextBody(v.s)
    ELSE IF v.t = "number" THEN NumberBody(v)
    ELSE ObjectBody(v)

ApplicationJson == <<"a", "p", "p", "l", "i", "c", "a", "t", "i", "o", "n", "/", "j", "s", "o", "n">>
PlusJson == <<"+", "j", "s", "o", "n">>
TextHtml == <<"t", "e", "x", "t", "/", "h", "t", "m", "l">>
ContentTypeName == <<"c", "o", "n", "t", "e", "n", "t", "-", "t", "y", "p", "e">>

ParsedOrRaw(rawBody, r) == IF r.ok THEN ToJsValue(r.value) ELSE TextBody(rawBody)

\* HttpExecutor.parseResponseBody: the body the comparator is given.
parseResponseBody(rawBody, contentType) ==
    IF Len(rawBody) = 0 THEN NullBody
    ELSE IF ~IsNone(contentType) /\ includes(toLowerCase(Val(contentType)), ApplicationJson)
    THEN ParsedOrRaw(rawBody, JSONParse(rawBody))
    ELSE TextBody(rawBody)

\* ---- StrategySelector

RECURSIVE getHeaderValueFrom(_, _, _)
getHeaderValueFrom(headers, name, i) ==
    IF i > Len(headers) THEN None
    ELSE IF toLowerCase(headers[i].name) = name THEN Some(headers[i].value)
    ELSE getHeaderValueFrom(headers, name, i + 1)

\* getHeaderValue: the value of the first header of that name, or null.
getHeaderValue(headers, headerName) ==
    getHeaderValueFrom(headers, toLowerCase(headerName), 1)

isJsonContentType(contentType) ==
    /\ ~IsNone(contentType)
    /\ \/ includes(toLowerCase(Val(contentType)), ApplicationJson)
       \/ includes(toLowerCase(Val(contentType)), PlusJson)

isHtmlContentType(contentType) ==
    ~IsNone(contentType) /\ includes(toLowerCase(Val(contentType)), TextHtml)

\* Lines 82-99 on the trimmed text.
IsJsonLikeText(trimmed) ==
    /\ Len(trimmed) # 0
    /\ \/ startsWith(trimmed, <<"{">>) /\ endsWith(trimmed, <<"}">>)
       \/ startsWith(trimmed, <<"[">>) /\ endsWith(trimmed, <<"]">>)
    /\ JSONParse(trimmed).ok

isJsonLikeBody(body) ==
    IF body.kind = "null" THEN FALSE
    ELSE IF body.kind = "object" THEN TRUE
    ELSE IF body.kind # "string" THEN FALSE
    ELSE IsJsonLikeText(trim(body.text))

hasWildcardPattern(body) == body.kind = "string" /\ includes(body.text, <<"*">>)

SelectByContentType(expected, actual, expectedContentType, actualContentType) ==
    IF \/ isJsonContentType(expectedContentType)
       \/ isJsonContentType(actualContentType)
       \/ isJsonLikeBody(expected.body)
       \/ isJsonLikeBody(actual.body)
    THEN "json"
    ELSE IF \/ isHtmlContentType(expectedContentType)
            \/ isHtmlContentType(actualContentType)
            \/ hasWildcardPattern(expected.body)
    THEN "partial"
    ELSE "exact"

\* A plausible slip: the partial test is made first.
selectPartialFirst(expectedResponse, actualResponse) ==
    IF IsNone(expectedResponse) THEN "exact"
    ELSE IF \/ isHtmlContentType(getHeaderValue(Val(expectedResponse).headers, ContentTypeName))
            \/ isHtmlContentType(getHeaderValue(actualResponse.headers, ContentTypeName))
            \/ hasWildcardPattern(Val(expectedResponse).body)
    THEN "partial"
    ELSE SelectByContentType(Val(expectedResponse), actualResponse,
                             getHeaderValue(Val(expectedResponse).headers, ContentTypeName),
                             getHeaderValue(actualResponse.headers, ContentTypeName))

\* StrategySelector.select
select(expectedResponse, actualResponse) ==
    IF IsNone(expectedResponse) THEN "exact"
    ELSE SelectByContentType(Val(expectedResponse), actualResponse,
                             getHeaderValue(Val(expectedResponse).headers, ContentTypeName),
                             getHeaderValue(actualResponse.headers, ContentTypeName))

\* ---- ResponseComparator

DEFAULT_EXPECTED_STATUS_CODE == 200

Mismatch(field, expected, actual, message) ==
    [field |-> field, expected |-> expected, actual |-> actual, message |-> message]

\* compareStatus: a code <= 0 is not checked.
compareStatus(expectedStatusCode, actualStatusCode, mismatches) ==
    IF expectedStatusCode <= 0 THEN mismatches
    ELSE IF expectedStatusCode # actualStatusCode
    THEN Append(mismatches, Mismatch(<<"statusCode">>, expectedStatusCode,
                                     actualStatusCode, "Expected status code"))
    ELSE mismatches

\* compareStatusText: a null status text is not checked.
compareStatusText(expectedStatusText, actualStatusText, mismatches) ==
    IF IsNone(expectedStatusText) THEN mismatches
    ELSE IF Val(expectedStatusText) # actualStatusText
    THEN Append(mismatches, Mismatch(<<"statusText">>, Val(expectedStatusText),
                                     actualStatusText, "Expected status text"))
    ELSE mismatches

RECURSIVE ActualMapFrom(_, _, _)
\* Lines 104-107: actualMap.set(lower-cased name, value), the last one stays.
ActualMapFrom(actualHeaders, i, map) ==
    IF i > Len(actualHeaders) THEN map
    ELSE ActualMapFrom(actualHeaders, i + 1,
                       Put(map, toLowerCase(actualHeaders[i].name), actualHeaders[i].value))

HeaderField(normalizedHeaderName) == <<"headers", ".">> \o normalizedHeaderName

RECURSIVE CompareHeadersFrom(_, _, _, _)
\* Lines 109-131 from expected header i on.
CompareHeadersFrom(expectedHeaders, i, actualMap, mismatches) ==
    IF i > Len(expectedHeaders) THEN mismatches
    ELSE IF toLowerCase(expectedHeaders[i].name) \notin DOMAIN actualMap
    THEN CompareHeadersFrom(expectedHeaders, i + 1, actualMap,
            Append(mismatches,
                   Mismatch(HeaderField(toLowerCase(expectedHeaders[i].name)),
                            Some(expectedHeaders[i].value), None,
                            "Expected header to be present")))
    ELSE IF actualMap[toLowerCase(expectedHeaders[i].name)] # expectedHeaders[i].value
    THEN CompareHeadersFrom(expectedHeaders, i + 1, actualMap,
            Append(mismatches,
                   Mismatch(HeaderField(toLowerCase(expectedHeaders[i].name)),
                            Some(expectedHeaders[i].value),
                            Some(actualMap[toLowerCase(expectedHeaders[i].name)]),
                            "Expected header value")))
    ELSE CompareHeadersFrom(expectedHeaders, i + 1, actualMap, mismatches)

RECURSIVE ActualMapAsWritten(_, _, _)
ActualMapAsWritten(actualHeaders, i, map) ==
    IF i > Len(actualHeaders) THEN map
    ELSE ActualMapAsWritten(actualHeaders, i + 1,
                            Put(map, actualHeaders[i].name, actualHeaders[i].value))

\* A plausible slip: the actual names are kept as the server wrote them.
compareHeadersActualAsWritten(expectedHeaders, actualHeaders, mismatches) ==
    IF Len(expectedHeaders) = 0 THEN mismatches
    ELSE CompareHeadersFrom(expectedHeaders, 1,
                            ActualMapAsWritten(actualHeaders, 1, <<>>), mismatches)

\* compareHeaders
compareHeaders(expectedHeaders, actualHeaders, mismatches) ==
    IF Len(expectedHeaders) = 0 THEN mismatches
    ELSE CompareHeadersFrom(expectedHeaders, 1,
                            ActualMapFrom(actualHeaders, 1, <<>>), mismatches)

Comparable(v) == [defined |-> TRUE, value |-> v]
Undefined == [defined |-> FALSE, value |-> JNull]
ParsedComparable(r) == IF r.ok THEN Comparable(r.value) ELSE Undefined

\* toJsonComparable: null stays null, an object is taken as it is, a
\* string is parsed; anything else, and a text that does not parse, is
\* undefined.
toJsonComparable(body) ==
    IF body.kind = "null" THEN Comparable(JNull)
    ELSE IF body.kind = "object" THEN Comparable(body.json)
    ELSE IF body.kind # "string" THEN Undefined
    ELSE IF Len(trim(body.text)) = 0 THEN Undefined
    ELSE ParsedComparable(JSONParse(trim(body.text)))

\* toComparableText
toComparableText(body) ==
    IF body.kind = "null" THEN <<>>
    ELSE IF body.kind = "string" THEN body.text
    ELSE stableStringify(body.json)

deepEqual(left, right) == stableStringify(left) = stableStringify(right)

CompareJson(expectedBody, actualBody, expectedJson, actualJson, mismatches) ==
    IF ~expectedJson.defined \/ ~actualJson.defined
    THEN Append(mismatches, Mismatch(<<"body">>, expectedBody, actualBody,
                                     "JSON comparison failed"))
    ELSE IF ~deepEqual(expectedJson.value, actualJson.value)
    THEN Append(mismatches, Mismatch(<<"body">>, ToJsValue(expectedJson.value),
                                     ToJsValue(actualJson.value),
                                     "JSON body does not match"))
    ELSE mismatches

\* compareJsonBody
compareJsonBody(expectedBody, actualBody, mismatches) ==
    CompareJson(expectedBody, actualBody, toJsonComparable(expectedBody),
                toJsonComparable(actualBody), mismatches)

CompareExact(expectedText, actualText, mismatches) ==
    IF expectedText # actualText
    THEN Append(mismatches, Mismatch(<<"body">>, TextBody(expectedText),
                                     TextBody(actualText), "exact"))
    ELSE mismatches

\* compareExactBody
compareExactBody(expectedBody, actualBody, mismatches) ==
    CompareExact(toComparableText(expectedBody), toComparableText(actualBody), mismatches)

\* ---- the wildcard pattern of the partial strategy

\* The characters wildcardToRegExp escapes: . + ? ^ $ { } ( ) | [ ] \
RegExpSpecials == {".", "+", "?", "^", "$", "{", "}", "(", ")", "|", "[", "]", "\\"}

RECURSIVE EscapeFrom(_, _)
\* pattern.replace(/[.+?^${}()|[\]\\]/g, "\\$&")
EscapeFrom(pattern, i) ==
    IF i > Len(pattern) THEN <<>>
    ELSE (IF pattern[i] \in RegExpSpecials THEN <<"\\", pattern[i]>> ELSE <<pattern[i]>>)
         \o EscapeFrom(pattern, i + 1)

RECURSIVE Split(_, _, _, _)
\* s.split(separator) for a separator of one character.
Split(s, separator, i, current) ==
    IF i > Len(s) THEN <<current>>
    ELSE IF s[i] = separator THEN <<current>> \o Split(s, separator, i + 1, <<>>)
    ELSE Split(s, separator, i + 1, Append(current, s[i]))

\* A plausible slip: nothing is escaped.
wildcardToRegExpUnescaped(pattern) ==
    <<"^">> \o Join(Split(pattern, "*", 1, <<>>), <<".", "*">>, 1) \o <<"$">>

\* wildcardToRegExp: the source of the regular expression (flag s).
wildcardToRegExp(pattern) ==
    <<"^">> \o Join(Split(EscapeFrom(pattern, 1), "*", 1, <<>>), <<".", "*">>, 1) \o <<"$">>

\* The atoms of a regular expression source between ^ and $: an escaped
\* character or any other character stands for itself, a dot for any
\* character (flag s: line breaks too); a star after an atom repeats it.
Atom(kind, char, next, source) ==
    [kind |-> kind, char |-> char,
     star |-> next <= Len(source) - 1 /\ source[next] = "*",
     next |-> IF next <= Len(source) - 1 /\ source[next] = "*" THEN next + 1 ELSE next]

AtomAt(source, i) ==
    IF source[i] = "\\" THEN Atom("literal", source[i + 1], i + 2, source)
    ELSE IF source[i] = "." THEN Atom("any", ".", i + 1, source)
    ELSE Atom("literal", source[i], i + 1, source)

AtomMatches(atom, char) == atom.kind = "any" \/ atom.char = char

RECURSIVE MatchFromAtom(_, _, _, _)
RECURSIVE MatchAtom(_, _, _, _)
MatchAtom(source, atom, text, j) ==
    IF atom.star
    THEN \/ MatchFromAtom(source, atom.next, text, j)
         \/ /\ j <= Len(text)
            /\ AtomMatches(atom, text[j])
            /\ MatchAtom(source, atom, text, j + 1)
    ELSE /\ j <= Len(text)
         /\ AtomMatches(atom, text[j])
         /\ MatchFromAtom(source, atom.next, text, j + 1)

\* The source from position i (the closing $ is its last character)
\* matches the text from position j to its end.
MatchFromAtom(source, i, text, j) ==
    IF i >= Len(source) THEN j > Len(text)
    ELSE MatchAtom(source, AtomAt(source, i), text, j)

\* new RegExp(source, "s").test(text) for a source ^...$
RegExpTest(source, text) == MatchFromAtom(source, 2, text, 1)

ComparePartial(expectedText, actualText, mismatches) ==
    IF includes(expectedText, <<"*">>)
    THEN IF ~RegExpTest(wildcardToRegExp(expectedText), actualText)
         THEN Append(mismatches, Mismatch(<<"body">>, TextBody(expectedText),
                                          TextBody(actualText), "wildcard"))
         ELSE mismatches
    ELSE IF ~includes(actualText, expectedText)
    THEN Append(mismatches, Mismatch(<<"body">>, TextBody(expectedText),
                                     TextBody(actualText), "partial"))
    ELSE mismatches

\* comparePartialBody
comparePartialBody(expectedBody, actualBody, mismatches) ==
    ComparePartial(toComparableText(expectedBody), toComparableText(actualBody),
                   mismatches)

\* compareBody: a null or empty expected body is not checked.
compareBody(strategy, expectedBody, actualBody, mismatches) ==
    IF expectedBody.kind = "null" \/ expectedBody = TextBody(<<>>) THEN mismatches
    ELSE IF strategy = "json" THEN compareJsonBody(expectedBody, actualBody, mismatches)
    ELSE IF strategy = "partial" THEN comparePartialBody(expectedBody, actualBody, mismatches)
    ELSE compareExactBody(expectedBody, actualBody, mismatches)

Result(strategy, mismatches) ==
    [passed |-> Len(mismatches) = 0, strategy |-> strategy, mismatches |-> mismatches]

\* A plausible slip: the default policy checks any 2xx code.
compareDefaultAny2xx(actualResponse, strategy) ==
    Result(IF IsNone(strategy) THEN "exact" ELSE Val(strategy),
           IF actualResponse.statusCode \div 100 = 2 THEN <<>>
           ELSE compareStatus(DEFAULT_EXPECTED_STATUS_CODE, actualResponse.statusCode, <<>>))

\* Lines 21-34: no expected block, the status code must be 200.
compareDefault(actualResponse, strategy) ==
    Result(IF IsNone(strategy) THEN "exact" ELSE Val(strategy),
           compareStatus(DEFAULT_EXPECTED_STATUS_CODE, actualResponse.statusCode, <<>>))

RECURSIVE FirstNonEmpty(_, _)
FirstNonEmpty(lists, i) ==
    IF i > Len(lists) THEN <<>>
    ELSE IF Len(lists[i]) > 0 THEN lists[i]
    ELSE FirstNonEmpty(lists, i + 1)

\* A plausible slip: the checks stop at the first one that fails.
compareExpectedShortCircuit(expected, actualResponse, strategy) ==
    Result(strategy,
           FirstNonEmpty(<<compareStatus(expected.statusCode, actualResponse.statusCode, <<>>),
                           compareStatusText(expected.statusText, actualResponse.statusText, <<>>),
                           compareHeaders(expected.headers, actualResponse.headers, <<>>),
                           compareBody(strategy, expected.body, actualResponse.body, <<>>)>>, 1))

\* Lines 43-54 under the strategy chosen.
compareExpected(expected, actualResponse, strategy) ==
    Result(strategy,
           compareBody(strategy, expected.body, actualResponse.body,
              compareHeaders(expected.headers, actualResponse.headers,
                 compareStatusText(expected.statusText, actualResponse.statusText,
                    compareStatus(expected.statusCode, actualResponse.statusCode, <<>>)))))

\* ResponseComparator.compare
compare(ctx) ==
    IF IsNone(ctx.expectedResponse) THEN compareDefault(ctx.actualResponse, ctx.strategy)
    ELSE compareExpected(Val(ctx.expectedResponse), ctx.actualResponse,
                         IF IsNone(ctx.strategy)
                         THEN select(ctx.expectedResponse, ctx.actualResponse)
                         ELSE Val(ctx.strategy))

\* ---- the comparisons the comparator is run on

\* HttpExecutor hands over the body parsed under the response's content type.
Actual(statusCode, statusText, headers, rawBody) ==
    [statusCode |-> statusCode, statusText |-> statusText, headers |-> headers,
     body |-> parseResponseBody(rawBody, getHeaderValue(headers, ContentTypeName)),
     rawBody |-> rawBody]

ExpectedResponse(statusCode, statusText, headers, body) ==
    [statusCode |-> statusCode, statusText |-> statusText, headers |-> headers,
     body |-> body]

Context(expectedResponse, actualResponse, strategy) ==
    [expectedResponse |-> expectedResponse, actualResponse |-> actualResponse,
     strategy |-> strategy]

Header(name, value) == [name |-> name, value |-> value]
ContentType(value) == <<Header(<<"C", "o", "n", "t", "e", "n", "t", "-", "T", "y", "p", "e">>, value)>>

TextOK == <<"O", "K">>
TextPlain == <<"t", "e", "x", "t", "/", "p", "l", "a", "i", "n">>
ProblemJson == <<"a", "p", "p", "l", "i", "c", "a", "t", "i", "o", "n", "/", "x", "+", "j", "s", "o", "n">>
JsonUpperCase == <<"A", "p", "p", "l", "i", "c", "a", "t", "i", "o", "n", "/", "J", "S", "O", "N">>

StatusCodes == {200, 201, 404}
ComparisonStrategy == {"json", "exact", "partial"}

\* No expected block: every kind of response, under every strategy asked for.
DefaultContexts ==
    {Context(None, Actual(code, text, headers, rawBody), strategy) :
        code \in StatusCodes,
        text \in {TextOK, <<"N", "o">>},
        headers \in {<<>>, ContentType(ApplicationJson)},
        rawBody \in {<<>>, <<"a">>, <<"{", "}">>},
        strategy \in {None} \cup {Some(st) : st \in ComparisonStrategy}}

\* The content types and bodies the strategy is chosen from.
HeaderChoices ==
    {<<>>, ContentType(ApplicationJson), ContentType(JsonUpperCase),
     ContentType(ProblemJson), ContentType(TextHtml), ContentType(TextPlain)}
ExpectedBodies ==
    {NullBody, TextBody(<<"a">>), TextBody(<<"a", "*">>), TextBody(<<"1">>),
     TextBody(<<" ", "{", "}", " ">>), TextBody(<<"[", "*", "]">>),
     TextBody(<<"{", "a">>)}
RawBodies == {<<>>, <<"a">>, <<"1">>, <<"[", "]">>, <<"\"", "A", "\"">>}

SelectionContexts ==
    {Context(Some(ExpectedResponse(200, None, expectedHeaders, expectedBody)),
             Actual(200, TextOK, actualHeaders, rawBody), None) :
        expectedHeaders \in HeaderChoices, expectedBody \in ExpectedBodies,
        actualHeaders \in HeaderChoices, rawBody \in RawBodies}

\* Two JSON texts under the json strategy; the response comes with or
\* without a JSON content type.
BrokenTexts == {<<"{">>, <<"a">>}
JsonTexts == {JSONStringify(v) : v \in JsonValues}
JsonContexts ==
    {Context(Some(ExpectedResponse(200, None, <<>>, TextBody(expectedText))),
             Actual(200, TextOK, actualHeaders, rawBody), Some("json")) :
        expectedText \in JsonTexts \cup BrokenTexts,
        actualHeaders \in {<<>>, ContentType(ApplicationJson)},
        rawBody \in JsonTexts \cup BrokenTexts}

\* Two texts of at most MaxText characters under the partial strategy.
MaxText == 3
TextsOver(alphabet) ==
    UNION {[1..n -> alphabet] : n \in 0..MaxText}
PartialContexts ==
    {Context(Some(ExpectedResponse(200, None, <<>>, TextBody(expectedText))),
             Actual(200, TextOK, <<>>, rawBody), Some("partial")) :
        expectedText \in TextsOver({"a", ".", "*"}) \ {<<>>},
        rawBody \in TextsOver({"a", ".", "\n"})}

\* At most MaxHeaders headers on each side; names differ in case only, or
\* altogether.
MaxHeaders == 2
ExpectedHeaders ==
    {Header(name, <<"1">>) : name \in {<<"X">>, <<"x">>, <<"y">>, <<"Y">>}}
ActualHeaders ==
    {Header(name, value) : name \in {<<"x">>, <<"Y">>}, value \in {<<"1">>, <<"2">>}}
HeaderLists(choices) == UNION {[1..n -> choices] : n \in 0..MaxHeaders}
HeaderContexts ==
    {Context(Some(ExpectedResponse(200, Some(TextOK), expectedHeaders, NullBody)),
             Actual(200, text, actualHeaders, <<>>), None) :
        expectedHeaders \in HeaderLists(ExpectedHeaders),
        actualHeaders \in HeaderLists(ActualHeaders),
        text \in {TextOK}}

\* Expected blocks whose four parts each are absent, met or missed by the
\* response, in every combination.
ExpectedCodes == {-1, 0, 200, 201}
MixedContexts ==
    {Context(Some(ExpectedResponse(expectedCode, expectedText, expectedHeaders, expectedBody)),
             Actual(code, TextOK, actualHeaders, rawBody), strategy) :
        expectedCode \in ExpectedCodes,
        expectedText \in {None, Some(TextOK), Some(<<"N", "o">>)},
        expectedHeaders \in {<<>>, <<Header(<<"X">>, <<"1">>)>>,
                             <<Header(<<"y">>, <<"1">>), Header(<<"X">>, <<"1">>)>>},
        expectedBody \in {NullBody, TextBody(<<>>), TextBody(<<"a">>)},
        code \in {200, 404},
        actualHeaders \in {<<>>, <<Header(<<"x">>, <<"1">>)>>, <<Header(<<"x">>, <<"2">>)>>},
        rawBody \in {<<>>, <<"a">>, <<"b">>},
        strategy \in {None, Some("exact")}}

Contexts ==
    DefaultContexts \cup SelectionContexts \cup JsonContexts
    \cup PartialContexts \cup HeaderContexts \cup MixedContexts

CInit ==
    /\ cpc = "ready"
    /\ context \in Contexts
    /\ comparison = <<>>

\* ResponseComparator.compare(context)
Compare ==
    /\ cpc = "ready"
    /\ comparison' = compare(context)
    /\ cpc' = "done"
    /\ UNCHANGED <<context, ovars, hvars, rvars, pvars>>

InitCompare == CInit /\ OIdle /\ HIdle /\ RIdle /\ PIdle
NextCompare == Compare
SpecCompare == InitCompare /\ [][NextCompare]_vars

\* ---- properties of the comparator (under SpecCompare)

\* C13: without an expected block the comparison passes exactly when the
\* status code is 200; otherwise it fails with one mismatch, on statusCode,
\* expected 200 and actual the code received.  Status text, headers and
\* body play no part.
C13_DefaultPolicy ==
    (cpc = "done" /\ IsNone(context.expectedResponse)) =>
        /\ comparison.passed <=> context.actualResponse.statusCode = 200
        /\ comparison.passed => Len(comparison.mismatches) = 0
        /\ ~comparison.passed =>
              /\ Len(comparison.mismatches) = 1
              /\ comparison.mismatches[1].field = <<"statusCode">>
              /\ comparison.mismatches[1].expected = 200
              /\ comparison.mismatches[1].actual = context.actualResponse.statusCode

C13_Witness ==
    /\ cpc = "done"
    /\ IsNone(context.expectedResponse)
    /\ context.actualResponse.statusCode = 201
    /\ context.actualResponse.statusText # TextOK
    /\ context.actualResponse.body.kind = "object"
    /\ ~comparison.passed
    /\ Len(comparison.mismatches) = 1

\* The content type of a side, and what the two tests on it mean.
ContentTypeOf(response) == getHeaderValue(response.headers, ContentTypeName)
IndicatesJson(contentType) ==
    /\ ~IsNone(contentType)
    /\ \/ startsWith(toLowerCase(Val(contentType)), ApplicationJson)
       \/ endsWith(toLowerCase(Val(contentType)), PlusJson)
IndicatesHtml(contentType) ==
    ~IsNone(contentType) /\ startsWith(toLowerCase(Val(contentType)), TextHtml)

\* A body that is an object, or a text that parses as JSON.
ParsesAsJson(body) ==
    \/ body.kind = "object"
    \/ body.kind = "string" /\ JSONParse(body.text).ok

\* A body that is an object, or a text that parses as JSON and is, white
\* space aside, written in braces or in brackets.
ParsesAsJsonStructure(body) ==
    \/ body.kind = "object"
    \/ /\ body.kind = "string"
       /\ JSONParse(body.text).ok
       /\ JSONParse(body.text).value.t \in {"object", "array"}

PartialCondition(expected, actual) ==
    \/ IndicatesHtml(ContentTypeOf(expected))
    \/ IndicatesHtml(ContentTypeOf(actual))
    \/ expected.body.kind = "string" /\ "*" \in Range(expected.body.text)

SelectionCase ==
    cpc = "done" /\ ~IsNone(context.expectedResponse) /\ IsNone(context.strategy)

\* C14 as stated: json when a content type indicates JSON or a body is an
\* object or parses as JSON, else partial on text/html or a '*' in the
\* expected text, else exact.
C14_StrategyPriority ==
    SelectionCase =>
        comparison.strategy =
            IF \/ IndicatesJson(ContentTypeOf(Val(context.expectedResponse)))
               \/ IndicatesJson(ContentTypeOf(context.actualResponse))
               \/ ParsesAsJson(Val(context.expectedResponse).body)
               \/ ParsesAsJson(context.actualResponse.body)
            THEN "json"
            ELSE IF PartialCondition(Val(context.expectedResponse), context.actualResponse)
            THEN "partial"
            ELSE "exact"

\* C14: the same priority, where a text body counts as JSON only when it
\* parses to an object or an array (a text such as 1 or "A" does not).
C14_StrategyPriorityStructures ==
    SelectionCase =>
        comparison.strategy =
            IF \/ IndicatesJson(ContentTypeOf(Val(context.expectedResponse)))
               \/ IndicatesJson(ContentTypeOf(context.actualResponse))
               \/ ParsesAsJsonStructure(Val(context.expectedResponse).body)
               \/ ParsesAsJsonStructure(context.actualResponse.body)
            THEN "json"
            ELSE IF PartialCondition(Val(context.expectedResponse), context.actualResponse)
            THEN "partial"
            ELSE "exact"

\* A json condition and a partial condition at once, and a text that
\* parses to a number chosen exact in another run.
C14_Witness ==
    /\ SelectionCase
    /\ IndicatesHtml(ContentTypeOf(Val(context.expectedResponse)))
    /\ Val(context.expectedResponse).body = TextBody(<<"a", "*">>)
    /\ IsNone(ContentTypeOf(context.actualResponse))
    /\ context.actualResponse.body = TextBody(<<"[", "]">>)
    /\ comparison.strategy = "json"

RECURSIVE SameUpToKeyOrder(_, _)
\* Two JSON values that differ at most in the order of the keys of their
\* objects, at any depth.
SameUpToKeyOrder(v, w) ==
    /\ v.t = w.t
    /\ v.s = w.s
    /\ Len(v.m) = Len(w.m)
    /\ IF v.t = "array"
       THEN \A i \in 1..Len(v.m) : SameUpToKeyOrder(v.m[i].v, w.m[i].v)
       ELSE \A i \in 1..Len(v.m) :
               \E j \in 1..Len(w.m) :
                   /\ v.m[i].k = w.m[j].k
                   /\ SameUpToKeyOrder(v.m[i].v, w.m[j].v)

BodyMismatches(result) ==
    {i \in 1..Len(result.mismatches) : result.mismatches[i].field = <<"body">>}

\* A comparison of two texts under the json strategy.
JsonCase ==
    /\ cpc = "done"
    /\ context.strategy = Some("json")
    /\ ~IsNone(context.expectedResponse)
    /\ Val(context.expectedResponse).body.kind = "string"

JsonVerdict(expectedJson, actualJson, result) ==
    IF ~expectedJson.ok \/ ~actualJson.ok
    THEN Cardinality(BodyMismatches(result)) = 1
    ELSE IF SameUpToKeyOrder(expectedJson.value, actualJson.value)
    THEN BodyMismatches(result) = {}
    ELSE Cardinality(BodyMismatches(result)) = 1

\* C15: under the json strategy two JSON values that differ only in the
\* order of object keys give no body mismatch, two that differ otherwise
\* give exactly one, and a side that is not JSON gives exactly one.
C15_JsonKeyOrderIndependent ==
    JsonCase =>
        JsonVerdict(JSONParse(Val(context.expectedResponse).body.text),
                    JSONParse(context.actualResponse.rawBody), comparison)

RECURSIVE WildcardMatch(_, _, _, _)
\* The text from position j on is the expected text from position i on
\* with some sequence of characters, of any kind and length, in place of
\* each '*', and every other character as it stands.
WildcardMatch(expectedText, i, actualText, j) ==
    IF i > Len(expectedText) THEN j > Len(actualText)
    ELSE IF expectedText[i] = "*"
    THEN \E k \in j..(Len(actualText) + 1) : WildcardMatch(expectedText, i + 1, actualText, k)
    ELSE /\ j <= Len(actualText)
         /\ actualText[j] = expectedText[i]
         /\ WildcardMatch(expectedText, i + 1, actualText, j + 1)

IsSubstring(part, whole) ==
    \E i \in 1..(Len(whole) + 1) :
        \E j \in (i - 1)..Len(whole) : SubSeq(whole, i, j) = part

\* A comparison of two texts under the partial strategy.
PartialCase ==
    /\ cpc = "done"
    /\ context.strategy = Some("partial")
    /\ ~IsNone(context.expectedResponse)
    /\ Val(context.expectedResponse).body.kind = "string"
    /\ Val(context.expectedResponse).body.text # <<>>
    /\ context.actualResponse.body.kind \in {"null", "string"}

\* C16: under the partial strategy an expected text with a '*' matches
\* exactly the texts made of its literal segments in order, anything (line
\* breaks too) in place of each '*', all other characters literal; an
\* expected text without '*' matches exactly the texts that contain it.
\* A text that does not match gives one body mismatch.
C16_PartialMatch ==
    PartialCase =>
        /\ BodyMismatches(comparison) = {} <=>
              IF "*" \in Range(Val(context.expectedResponse).body.text)
              THEN WildcardMatch(Val(context.expectedResponse).body.text, 1,
                                 context.actualResponse.rawBody, 1)
              ELSE IsSubstring(Val(context.expectedResponse).body.text,
                               context.actualResponse.rawBody)
        /\ Cardinality(BodyMismatches(comparison)) <= 1

\* A literal dot and a '*' that spans a line break.
C16_Witness ==
    /\ PartialCase
    /\ Val(context.expectedResponse).body.text = <<".", "*", "a">>
    /\ context.actualResponse.rawBody = <<".", "\n", "a">>
    /\ comparison.passed

\* The headers of a response whose name is the given one, case aside.
Named(headers, name) ==
    {i \in 1..Len(headers) : toLowerCase(headers[i].name) = toLowerCase(name)}

\* The value a response gives a name: that of its last header of the name.
ValueIn(headers, name) ==
    headers[CHOOSE i \in Named(headers, name) : \A j \in Named(headers, name) : j <= i].value

RECURSIVE HeaderVerdicts(_, _, _)
\* What the expected headers from number i on call for, one by one: nothing
\* when the response has the name with the same value, else one mismatch.
HeaderVerdicts(expectedHeaders, i, actualHeaders) ==
    IF i > Len(expectedHeaders) THEN <<>>
    ELSE (IF Named(actualHeaders, expectedHeaders[i].name) = {}
          THEN <<[field |-> <<"headers", ".">> \o toLowerCase(expectedHeaders[i].name),
                  expected |-> Some(expectedHeaders[i].value), actual |-> None]>>
          ELSE IF ValueIn(actualHeaders, expectedHeaders[i].name) # expectedHeaders[i].value
          THEN <<[field |-> <<"headers", ".">> \o toLowerCase(expectedHeaders[i].name),
                  expected |-> Some(expectedHeaders[i].value),
                  actual |-> Some(ValueIn(actualHeaders, expectedHeaders[i].name))]>>
          ELSE <<>>)
         \o HeaderVerdicts(expectedHeaders, i + 1, actualHeaders)

IsHeaderMismatch(mismatch) == mismatch.field[1] = "headers"
Stripped(mismatches) ==
    [i \in 1..Len(mismatches) |->
        [field |-> mismatches[i].field, expected |-> mismatches[i].expected,
         actual |-> mismatches[i].actual]]

\* C17: the header mismatches are those the expected headers call for, in
\* their order: one with actual = null for a name the response lacks
\* (names compared without regard to case), one carrying both values for
\* a name the response gives another value, none for anything else; a
\* header the expected block does not list causes none.
C17_HeadersExpectedOnly ==
    (cpc = "done" /\ ~IsNone(context.expectedResponse)) =>
        Stripped(SelectSeq(comparison.mismatches, IsHeaderMismatch))
            = HeaderVerdicts(Val(context.expectedResponse).headers, 1,
                             context.actualResponse.headers)

\* A name matched in another case, a value that differs, a header only
\* the response has.
C17_Witness ==
    /\ cpc = "done"
    /\ ~IsNone(context.expectedResponse)
    /\ Val(context.expectedResponse).headers = <<Header(<<"X">>, <<"1">>), Header(<<"y">>, <<"1">>)>>
    /\ context.actualResponse.headers = <<Header(<<"x">>, <<"1">>), Header(<<"Y">>, <<"2">>)>>
    /\ Len(comparison.mismatches) = 1
    /\ comparison.mismatches[1].field = <<"headers", ".", "y">>

(***************************************************************************)
(* run (src/index.ts)                                                      *)
(*                                                                         *)
(* One call of run: the stages in the order of the code, each of which     *)
(* returns or throws.  The orchestrator is the collaborator run is given:  *)
(* it sends the requests of the resolved units one after the other and     *)
(* hands each result to onResult.  runOutcomes is what each unit would     *)
(* come to if it were executed.                                            *)
(***************************************************************************)

MaxRunUnits == 3
ExecutionModes == {"inline", "files"}
\* What a unit comes to: its response matched, a mismatch was found, or the
\* executor or the comparator threw.
RunOutcomes == {"passed", "failed", "error"}
RunOutcomeLists == UNION {[1..n -> RunOutcomes] : n \in 0..MaxRunUnits}

\* The ExecutionResult of an outcome, as far as the reporter reads it.
ResultOf(outcome) ==
    [passed |-> outcome = "passed",
     error |-> IF outcome = "error" THEN Some("Error") ELSE None]
ResultsOf(outcomes) == [i \in 1..Len(outcomes) |-> ResultOf(outcomes[i])]

RECURSIVE Tally(_, _, _, _, _)
\* Lines 66-80 of the reporter: the loop over the results from number i on.
Tally(list, i, passed, failed, errors) ==
    IF i > Len(list)
    THEN [total |-> Len(list), passed |-> passed, failed |-> failed, errors |-> errors]
    ELSE IF list[i].passed THEN Tally(list, i + 1, passed + 1, failed, errors)
    ELSE Tally(list, i + 1, passed, failed + 1,
               IF ~IsNone(list[i].error) THEN errors + 1 ELSE errors)

\* A plausible slip: the exit code follows the errors, not the failures.
ResultReportOnErrors(summary) ==
    [summary |-> summary, exitCode |-> IF summary.errors > 0 THEN 1 ELSE 0]

\* Lines 108-111 of the reporter.
ResultReport(summary) ==
    [summary |-> summary, exitCode |-> IF summary.failed > 0 THEN 1 ELSE 0]

\* ResultReporter.reportSummary (src/reporter/result-reporter.ts); report
\* returns the same after it has printed each result.
reportSummary(list) == ResultReport(Tally(list, 1, 0, 0, 0))

\* The stages that come before orchestrator.execute.
EarlyStages == {"parseArgs", "buildConfig", "parseInline", "discoverHttpFiles",
                "parseFiles", "resolveSources"}

PInit ==
    /\ runPc = "parseArgs"
    /\ executionMode \in ExecutionModes
    /\ showAfterDone \in BOOLEAN
    /\ runOutcomes \in RunOutcomeLists
    /\ requestsSent = 0
    /\ reportedResults = <<>>
    /\ thrownAt = None
    /\ exitCode = None
    /\ report = None

\* A plausible slip: the error is passed on to the caller.
CatchRethrows(stage) ==
    /\ runPc' = "rejected"
    /\ thrownAt' = Some(stage)
    /\ exitCode' = None
    /\ UNCHANGED <<executionMode, showAfterDone, runOutcomes, requestsSent,
                   reportedResults, report>>

\* Lines 89-93: whatever was thrown is logged, and run returns 1.
Catch(stage) ==
    /\ runPc' = "done"
    /\ thrownAt' = Some(stage)
    /\ exitCode' = Some(1)
    /\ UNCHANGED <<executionMode, showAfterDone, runOutcomes, requestsSent,
                   reportedResults, report>>

Proceed(stage) ==
    /\ runPc' = stage
    /\ UNCHANGED <<executionMode, showAfterDone, runOutcomes, requestsSent,
                   reportedResults, thrownAt, exitCode, report>>

\* Line 30: parseArgs(argv) returns or throws (an unknown or malformed flag).
ParseArgs(throws) ==
    /\ runPc = "parseArgs"
    /\ IF throws THEN Catch("parseArgs") ELSE Proceed("buildConfig")
    /\ UNCHANGED <<ovars, hvars, rvars, cvars>>

\* Line 31: buildConfig returns the configuration or throws.
BuildConfig(throws) ==
    /\ runPc = "buildConfig"
    /\ IF throws THEN Catch("buildConfig")
       ELSE Proceed(IF executionMode = "inline" THEN "parseInline" ELSE "discoverHttpFiles")
    /\ UNCHANGED <<ovars, hvars, rvars, cvars>>

\* Line 38: parseInline throws on an empty text, on a template that does
\* not parse and on one with no request.
ParseInline(throws) ==
    /\ runPc = "parseInline"
    /\ IF throws THEN Catch("parseInline") ELSE Proceed("resolveSources")
    /\ UNCHANGED <<ovars, hvars, rvars, cvars>>

\* Line 40: the files are looked up.
DiscoverHttpFiles(throws) ==
    /\ runPc = "discoverHttpFiles"
    /\ IF throws THEN Catch("discoverHttpFiles") ELSE Proceed("parseFiles")
    /\ UNCHANGED <<ovars, hvars, rvars, cvars>>

\* Line 39: every file is read and parsed; one that fails fails them all.
ParseFiles(throws) ==
    /\ runPc = "parseFiles"
    /\ IF throws THEN Catch("parseFiles") ELSE Proceed("resolveSources")
    /\ UNCHANGED <<ovars, hvars, rvars, cvars>>

\* Line 43: all units of all sources are resolved; the strict mode throws
\* on an unresolved variable.
ResolveSources(throws) ==
    /\ runPc = "resolveSources"
    /\ IF throws THEN Catch("resolveSources") ELSE Proceed("execute")
    /\ UNCHANGED <<ovars, hvars, rvars, cvars>>

\* Lines 74-79: the orchestrator sends the request of the next unit and,
\* unless results are shown after the run, the reporter is given its result.
ExecuteUnit ==
    /\ runPc = "execute"
    /\ requestsSent < Len(runOutcomes)
    /\ requestsSent' = requestsSent + 1
    /\ reportedResults' =
          IF showAfterDone THEN reportedResults
          ELSE Append(reportedResults, runOutcomes[requestsSent + 1])
    /\ UNCHANGED <<runPc, executionMode, showAfterDone, runOutcomes, thrownAt, exitCode,
                   report>>
    /\ UNCHANGED <<ovars, hvars, rvars, cvars>>

\* orchestrator.execute rejects.
ExecuteThrows ==
    /\ runPc = "execute"
    /\ Catch("execute")
    /\ UNCHANGED <<ovars, hvars, rvars, cvars>>

\* orchestrator.execute resolves with the results.
ExecuteReturn ==
    /\ runPc = "execute"
    /\ requestsSent = Len(runOutcomes)
    /\ Proceed("report")
    /\ UNCHANGED <<ovars, hvars, rvars, cvars>>

\* Lines 81-88: the results are reported (all of them now when they were
\* not shown one by one) and the exit code is the report's.
Report ==
    /\ runPc = "report"
    /\ runPc' = "done"
    /\ reportedResults' = IF showAfterDone THEN runOutcomes ELSE reportedResults
    /\ report' = Some(reportSummary(ResultsOf(runOutcomes)))
    /\ exitCode' = Some(reportSummary(ResultsOf(runOutcomes)).exitCode)
    /\ UNCHANGED <<executionMode, showAfterDone, runOutcomes, requestsSent, thrownAt>>
    /\ UNCHANGED <<ovars, hvars, rvars, cvars>>

InitRun == PInit /\ OIdle /\ HIdle /\ RIdle /\ CIdle

NextRun ==
    \/ \E throws \in BOOLEAN : ParseArgs(throws)
    \/ \E throws \in BOOLEAN : BuildConfig(throws)
    \/ \E throws \in BOOLEAN : ParseInline(throws)
    \/ \E throws \in BOOLEAN : DiscoverHttpFiles(throws)
    \/ \E throws \in BOOLEAN : ParseFiles(throws)
    \/ \E throws \in BOOLEAN : ResolveSources(throws)
    \/ ExecuteUnit
    \/ ExecuteThrows
    \/ ExecuteReturn
    \/ Report

SpecRun == InitRun /\ [][NextRun]_vars

\* ---- properties of run (under SpecRun)

\* C18: when a stage before the orchestrator throws, no request has been
\* or will be sent, no result is reported, and run ends with exit code 1
\* rather than passing the error on; and a request is only ever sent once
\* every such stage has returned.
C18_FailFastBeforeExecution ==
    /\ (~IsNone(thrownAt) /\ Val(thrownAt) \in EarlyStages) =>
          /\ runPc = "done"
          /\ requestsSent = 0
          /\ reportedResults = <<>>
          /\ exitCode = Some(1)
    /\ (requestsSent > 0 \/ reportedResults # <<>>) =>
          /\ runPc \in {"execute", "report", "done"}
          /\ IsNone(thrownAt) \/ Val(thrownAt) = "execute"
    /\ runPc \in EarlyStages \cup {"execute", "report", "done"}

\* The strict mode throws while units that would fail are waiting.
C18_Witness ==
    /\ thrownAt = Some("resolveSources")
    /\ runPc = "done"
    /\ Len(runOutcomes) = MaxRunUnits
    /\ ~showAfterDone
    /\ requestsSent = 0
    /\ exitCode = Some(1)

\* ---- further properties of ExecutionOrchestrator.execute, second part
\* ---- (under Spec)

\* C21: the delay is slept in runInBand mode only and never before the
\* first request: with a delay d > 0 every sleep is a sleep of d, there is
\* one before each executor call but the first (so one less than the calls
\* once the run is over, also when bail ended it), and in concurrent mode
\* or with d = 0 sleep is never called.
C21_DelayBetweenSequentialCalls ==
    /\ (requestExecutionStrategy = "runInBand" /\ defaultTimeBetweenRequests > 0) =>
          /\ \A i \in 1..Len(sleeps) : sleeps[i] = defaultTimeBetweenRequests
          /\ pc = "sleeping" => Len(sleeps) = Len(calls) /\ Len(calls) >= 1
          /\ pc # "sleeping" => Len(sleeps) = Max(0, Len(calls) - 1)
    /\ (requestExecutionStrategy = "concurrent" \/ defaultTimeBetweenRequests = 0) =>
          sleeps = <<>>

\* Bail ends a run of three units after the second: one sleep, none after
\* the unit that reached the threshold.
C21_Witness ==
    /\ requestExecutionStrategy = "runInBand"
    /\ defaultTimeBetweenRequests = 1
    /\ bail = Some(2)
    /\ Len(executionUnits) = 3
    /\ pc = "done"
    /\ calls = <<1, 2>>
    /\ sleeps = <<1>>

\* The verdict of the built-in comparator on every default-policy and
\* every strategy-selection comparison: passed exactly when it lists no
\* mismatch.
BuiltInVerdicts == {compare(ctx) : ctx \in DefaultContexts \cup SelectionContexts}
BuiltInPassedIffNoMismatch ==
    \A verdict \in BuiltInVerdicts : verdict.passed <=> Len(verdict.mismatches) = 0

ConsistentResult(result) ==
    /\ ~IsNone(result.error) <=> IsNone(result.comparison)
    /\ ~IsNone(result.error) <=> IsNone(result.executedUnit)
    /\ ~IsNone(result.comparison) =>
          /\ IsNone(result.error)
          /\ result.passed = Val(result.comparison).passed
          /\ Val(result.comparison).passed <=> Val(result.comparison).mismatches = 0
    /\ result.passed => IsNone(result.error)
    /\ result.unit \notin executorThrew \cup comparatorThrew => IsNone(result.error)

\* C26: in every result, error is non-null exactly when comparison is null
\* and exactly when executedUnit is null; with a comparison there is no
\* error and passed is the comparison's verdict, which the built-in
\* comparator gives exactly when it lists no mismatch; a mismatch is never
\* an error and a passed result carries none.
C26_ResultConsistency ==
    /\ \A i \in 1..Len(results) : ConsistentResult(results[i])
    /\ ~IsNone(returned) => \A i \in 1..Len(Val(returned)) : ConsistentResult(Val(returned)[i])
    /\ BuiltInPassedIffNoMismatch

\* A run returned one result of each kind: passed, failed verdict, error.
C26_Witness ==
    /\ pc = "done"
    /\ Len(Val(returned)) = 3
    /\ \E i \in 1..3 : Val(returned)[i].passed
    /\ \E i \in 1..3 :
          /\ ~Val(returned)[i].passed
          /\ ~IsNone(Val(returned)[i].comparison)
          /\ IsNone(Val(returned)[i].error)
    /\ \E i \in 1..3 : ~IsNone(Val(returned)[i].error)

\* C27: a failure in handling one unit, the onResult callback's included,
\* never discards work: execute does not reject, it returns every result
\* completed, and unless bail ended a runInBand run every scheduled unit
\* has been executed and is in the list returned.
C27_PartialFailuresKeepWork ==
    /\ pc # "rejected"
    /\ pc = "done" =>
          /\ Val(returned) = results
          /\ (IsNone(bail) \/ requestExecutionStrategy = "concurrent") =>
                /\ Len(calls) = Len(executionUnits)
                /\ Len(Val(returned)) = Len(executionUnits)

IsPrefix(short, long) ==
    Len(short) <= Len(long) /\ SubSeq(long, 1, Len(short)) = short

\* C29: in both strategies no unit is handed to the executor twice, only
\* units that the executor was called for have a result and each has one;
\* when execute resolves the executor has been called for exactly the units
\* of the list returned and each result has been through onResult once,
\* its promise settled; and the results list only ever grows at its end.
C29_ExactlyOnce ==
    /\ [](/\ NoDuplicates(calls)
          /\ NoDuplicates(UnitsOf(results))
          /\ Range(UnitsOf(results)) \subseteq Range(calls)
          /\ NoDuplicates(onResultCalls)
          /\ pc = "done" =>
                /\ Val(returned) = results
                /\ Range(calls) = Range(UnitsOf(Val(returned)))
                /\ Len(calls) = Len(Val(returned))
                /\ hasOnResult => onResultCalls = UnitsOf(Val(returned))
                /\ cbPending = {})
    /\ [][IsPrefix(results, results') /\ Len(results') <= Len(results) + 1]_vars

\* A run with a callback returned three results, the first from a failed
\* executor call that was not tried again.
C29_Witness ==
    /\ pc = "done"
    /\ hasOnResult
    /\ calls = <<1, 2, 3>>
    /\ 1 \in executorThrew
    /\ Len(Val(returned)) = 3
    /\ Len(onResultCalls) = 3

NotPositiveInteger(setting) ==
    ~IsNone(setting) /\ (~IsInteger(Val(setting)) \/ Val(setting) <= 0)

\* C30: a maxRequests or bail option that is no positive integer is the
\* same as none: the fields are null as for an absent option, no unit is
\* cut off, and a runInBand run goes through every unit whatever fails;
\* a negative delay is a delay of 0, and nothing is slept.
C30_OddSettingsAreAbsent ==
    /\ NotPositiveInteger(options.maxRequests) =>
          /\ maxRequests = normalizeMaxRequests(None)
          /\ pc # "idle" => executionUnits = units
    /\ NotPositiveInteger(options.bail) =>
          /\ bail = normalizeBail(None)
          /\ pc = "done" =>
                /\ Len(calls) = Len(executionUnits)
                /\ Len(Val(returned)) = Len(executionUnits)
    /\ options.defaultTimeBetweenRequests < 0 =>
          /\ defaultTimeBetweenRequests = 0
          /\ sleeps = <<>>

\* bail: 0 and three units of which two are let through: both fail and
\* both are executed and returned.
C30_Witness ==
    /\ options.bail = Some(Whole(0))
    /\ requestExecutionStrategy = "runInBand"
    /\ Len(units) = 3
    /\ pc = "done"
    /\ Len(Val(returned)) = 2
    /\ FailedIn(Val(returned)) = 2

(***************************************************************************)
(* Further properties of VariableResolver                                  *)
(***************************************************************************)

HeaderTexts(hs) == UNION {{hs[k].name, hs[k].value} : k \in 1..Len(hs)}

\* Every text of the request that resolveRequest interpolates.
TextsOf(request) ==
    {request.url}
    \cup HeaderTexts(request.headers)
    \cup (IF IsNone(request.body) THEN {}
          ELSE {Val(request.body).raw} \cup OptionText(Val(request.body).contentType))
    \cup (IF IsNone(request.expectedResponse) THEN {}
          ELSE HeaderTexts(Val(request.expectedResponse).headers)
               \cup OptionText(Val(request.expectedResponse).statusText)
               \cup OptionText(Val(request.expectedResponse).body))

PlaceholderFree(request) == \A s \in TextsOf(request) : ~HasPlaceholder(s)

\* The scopes a request is fed back under: every file's variables alone and
\* the merged scope of every request of the source.
FeedbackScopes ==
    {toVariableMap(f) : f \in FileVariableChoices}
    \cup {MergedVariables(ast, j) : j \in 1..Len(ast.requests)}

\* C22: a text without a placeholder is resolved to itself under any scope;
\* a request without placeholders is resolved to an equal request; and a
\* resolved request that holds no placeholder, fed back through
\* resolveRequest under any scope, comes back equal and nothing is thrown.
C22_IdempotentOnResolved ==
    /\ \A f \in AllResolvedFields : ~HasPlaceholder(f.in) => f.out = f.in
    /\ \A i \in 1..Len(resolved) :
          /\ PlaceholderFree(ast.requests[i]) => resolved[i].request = ast.requests[i]
          /\ PlaceholderFree(resolved[i].request) =>
                \A scope \in FeedbackScopes :
                    resolveRequest(resolved[i].request, scope) =
                        [thrown |-> None, value |-> resolved[i].request]

\* A placeholder-free request stood in a source whose scope defines x, and
\* a request with placeholders was resolved to one without: both are in the
\* returned units.
C22_Witness ==
    /\ rpc = "returned"
    /\ ast.fileVariables = FileX
    /\ \E i, j \in 1..Len(resolved) :
          /\ ast.requests[i] = RequestLiteral
          /\ resolved[i].request = RequestLiteral
          /\ ~PlaceholderFree(ast.requests[j])
          /\ PlaceholderFree(resolved[j].request)

RECURSIVE AfterPasses(_, _, _)
\* What k calls of replace make of the text, nothing being thrown: the
\* output and whether the last call replaced a known name.
AfterPasses(s, scope, k) ==
    IF k = 0 THEN [output |-> s, changed |-> TRUE, thrown |-> None]
    ELSE ReplacePass(AfterPasses(s, scope, k - 1).output, 1, scope, FALSE, <<>>, FALSE)

\* The break of line 148 is taken after the k-th call.
StopsAfter(s, scope, k) ==
    \/ ~AfterPasses(s, scope, k).changed
    \/ ~HasPlaceholder(AfterPasses(s, scope, k).output)

\* The field was resolved in n passes: no more than the cap, no pass after
\* one that stops, and none missing before the cap.
PassesAsClaimed(f, n) ==
    /\ n <= maxInterpolationPasses
    /\ f.out = AfterPasses(f.in, f.scope, n).output
    /\ \A k \in 1..(n - 1) : ~StopsAfter(f.in, f.scope, k)
    /\ n < maxInterpolationPasses => n >= 1 /\ StopsAfter(f.in, f.scope, n)

\* The texts of the source with the scope of their request.
SourceTexts ==
    UNION {{[in |-> s, scope |-> MergedVariables(ast, i)] : s \in TextsOf(ast.requests[i])} :
           i \in 1..Len(ast.requests)}

\* C23: interpolateString makes at most maxInterpolationPasses passes over
\* any text of the source, cyclic definitions included, whether it returns
\* or throws; a resolved field is what exactly that many passes make of it,
\* the loop having stopped at the first pass that replaced nothing or left
\* no placeholder; and a field whose chain of definitions is no deeper than
\* the cap has no placeholder left.
C23_TerminatesWithinCap ==
    /\ \A t \in SourceTexts :
          interpolateString(t.in, t.scope).passes <= maxInterpolationPasses
    /\ \A f \in AllResolvedFields :
          /\ PassesAsClaimed(f, interpolateString(f.in, f.scope).passes)
          /\ ResolvableWithin(f.in, f.scope, maxInterpolationPasses)
                => ~HasPlaceholder(f.out)

\* Under a cap of two passes the cycle a = {{b}}, b = {{a}} was stopped by
\* the cap with a placeholder left, and an unknown name stopped the loop
\* after one pass.
C23_Witness ==
    /\ rpc = "returned"
    /\ maxInterpolationPasses = 2
    /\ ast.fileVariables = FileCycle
    /\ \E f \in AllResolvedFields :
          /\ interpolateString(f.in, f.scope).passes = maxInterpolationPasses
          /\ ~StopsAfter(f.in, f.scope, 2)
          /\ HasPlaceholder(f.out)
    /\ \E f \in AllResolvedFields :
          /\ HasPlaceholder(f.in)
          /\ interpolateString(f.in, f.scope).passes = 1

\* The chain a = X, b = {{a}}Y, c = {{b}}Z was resolved in three passes
\* under the default cap, and a chain of depth two under a cap of two.
ChainResolvedWithinCap ==
    \E f \in AllResolvedFields :
        /\ HasPlaceholder(f.in)
        /\ ResolvableWithin(f.in, f.scope, maxInterpolationPasses)
        /\ interpolateString(f.in, f.scope).passes = maxInterpolationPasses
        /\ ~HasPlaceholder(f.out)

\* Every unit returned is what resolving the source as it is now yields.
ResolvingAgainYieldsEqualUnits ==
    \A i \in 1..Len(resolved) :
        ResolveUnit(ast, i) = [thrown |-> None, value |-> resolved[i]]

ThrewAfterResolving ==
    /\ rpc = "threw"
    /\ Len(resolved) >= 1
    /\ resolved[1].request # ast.requests[1]

(***************************************************************************)
(* Further properties of ResponseComparator.compare                        *)
(***************************************************************************)

FieldsOf(mismatches) == [i \in 1..Len(mismatches) |-> mismatches[i].field]

\* What each check yields when it is run alone on the context.
StatusAlone(ctx) ==
    compareStatus(Val(ctx.expectedResponse).statusCode, ctx.actualResponse.statusCode, <<>>)
StatusTextAlone(ctx) ==
    compareStatusText(Val(ctx.expectedResponse).statusText, ctx.actualResponse.statusText, <<>>)
HeadersAlone(ctx) ==
    compareHeaders(Val(ctx.expectedResponse).headers, ctx.actualResponse.headers, <<>>)
BodyAlone(ctx, strategy) ==
    compareBody(strategy, Val(ctx.expectedResponse).body, ctx.actualResponse.body, <<>>)

ChecksAlone(ctx, strategy) ==
    StatusAlone(ctx) \o StatusTextAlone(ctx) \o HeadersAlone(ctx) \o BodyAlone(ctx, strategy)

Has(mismatches, field) == \E i \in 1..Len(mismatches) : mismatches[i].field = field

\* C25: with an expected block the mismatches are those of the status code
\* check, the status text check, the header check and the body check, each
\* as it yields them alone and in that order; a status code mismatch is
\* there exactly when the expected code is positive and differs, a status
\* text mismatch exactly when the expected text is not null and differs,
\* and a body mismatch only when the expected body is neither null nor the
\* empty string.
C25_IndependentChecks ==
    (cpc = "done" /\ ~IsNone(context.expectedResponse)) =>
        /\ FieldsOf(comparison.mismatches) =
              FieldsOf(ChecksAlone(context, comparison.strategy))
        /\ comparison.mismatches = ChecksAlone(context, comparison.strategy)
        /\ Has(comparison.mismatches, <<"statusCode">>) <=>
              /\ Val(context.expectedResponse).statusCode > 0
              /\ Val(context.expectedResponse).statusCode # context.actualResponse.statusCode
        /\ Has(comparison.mismatches, <<"statusText">>) <=>
              /\ ~IsNone(Val(context.expectedResponse).statusText)
              /\ Val(Val(context.expectedResponse).statusText) # context.actualResponse.statusText
        /\ Has(comparison.mismatches, <<"body">>) =>
              /\ Val(context.expectedResponse).body # NullBody
              /\ Val(context.expectedResponse).body # TextBody(<<>>)

\* All four checks have failed on one response: the mismatches are the
\* status code, the status text, two headers in expected order, the body.
C25_Witness ==
    /\ cpc = "done"
    /\ ~IsNone(context.expectedResponse)
    /\ Len(Val(context.expectedResponse).headers) = 2
    /\ Len(comparison.mismatches) = 5
    /\ comparison.mismatches[1].field = <<"statusCode">>
    /\ comparison.mismatches[2].field = <<"statusText">>
    /\ comparison.mismatches[5].field = <<"body">>

(***************************************************************************)
(* Properties of the report run returns (under SpecRun)                    *)
(***************************************************************************)

Count(list, Test(_)) == Cardinality({i \in 1..Len(list) : Test(list[i])})
IsPassed(result) == result.passed
IsFailed(result) == ~result.passed
IsErrored(result) == ~result.passed /\ ~IsNone(result.error)

\* C28: once the reporter has returned, the exit code of run is the
\* report's, and it is 1 exactly when some result has passed = false
\* (a mismatch or an error), else 0, also for no results at all; the
\* summary's total is the number of results and passed + failed, passed and
\* failed count the results that passed and that did not, and errors counts
\* the failed results that carry an error.
C28_ExitCodeAndSummary ==
    ~IsNone(report) =>
        /\ exitCode = Some(Val(report).exitCode)
        /\ Val(report).exitCode \in {0, 1}
        /\ Val(report).exitCode = 1 <=>
              \E i \in 1..Len(runOutcomes) : ~ResultsOf(runOutcomes)[i].passed
        /\ Val(report).summary.total = Len(runOutcomes)
        /\ Val(report).summary.total =
              Val(report).summary.passed + Val(report).summary.failed
        /\ Val(report).summary.passed = Count(ResultsOf(runOutcomes), IsPassed)
        /\ Val(report).summary.failed = Count(ResultsOf(runOutcomes), IsFailed)
        /\ Val(report).summary.errors = Count(ResultsOf(runOutcomes), IsErrored)
        /\ Val(report).summary.errors <= Val(report).summary.failed

\* Three results were reported, one passed, one with a mismatch and none
\* with an error: the run failed with one failure and no error.
C28_Witness ==
    /\ runPc = "done"
    /\ ~IsNone(report)
    /\ Len(runOutcomes) = 3
    /\ "error" \notin Range(runOutcomes)
    /\ Val(report).summary = [total |-> 3, passed |-> 2, failed |-> 1, errors |-> 0]
    /\ exitCode = Some(1)

\* No result at all was reported: the run passed.
EmptyReportPasses ==
    /\ runPc = "done"
    /\ ~IsNone(report)
    /\ runOutcomes = <<>>
    /\ exitCode = Some(0)

====
